---- MODULE Spec2Model ----
\* A model of r-debugger (src/src/debugger.rs and the modules it uses): the
\* breakpoint table, the tracee controller's wait loop, the breakpoint
\* recovery and the interactive shell, together with a tracee that executes
\* instructions out of a byte-addressed memory.
EXTENDS Integers, Sequences, FiniteSets, TLC

VARIABLES
    breakpoints,  \* BreakpointList.breakpoints: Seq of [sym, inst, addr]
    entry,        \* Debugger.entry
    sym_tbl,      \* Elf64.sym_tbl (empty before Elf64::load)
    first_sig,    \* the local first_sig of Debugger::start
    pc,           \* where the controller is
    hit,          \* the address rip_bp while recover_bp waits, else -1
    regs,         \* the tracee's registers (user_regs_struct)
    mem,          \* the tracee's memory, one byte per address
    tstate,       \* the tracee: "run", "step", "stop", "exit", "sig", "dead"
    pending,      \* the tracee's state change has not been returned by wait yet
    tsig,         \* the signal of the tracee's current stop
    out,          \* the message printed by the last handler
    last,         \* record of the last operation (its inputs and the state before)
    regTime,      \* ghost: address -> time of its latest successful register
    clock,        \* ghost: number of successful register calls
    orig,         \* ghost: address -> the word read there when it was registered
    exec,         \* ghost: the last instruction the tracee executed [from, to, n]
    badOp,        \* ghost: a tracee operation was issued while it was not stopped
    reader,       \* ULEB128::decode: the bytes its reader has left
    decoded,      \* the results of the decode calls so far
    leb_in,       \* ghost: the values whose encodings the reader was filled with
    overflow_checks, \* the build: arithmetic overflow panics (debug) or wraps (release)
    adr,          \* an address object (AdrFromRel or AdrFromAbs) after its constructor
    adr_in,       \* ghost: the arguments its constructor was given
    got,          \* the values its get() calls returned, in order
    elf_file,     \* the file Elf64 was constructed for: sections, e_shstrndx, contents
    sec_header,   \* Elf64.sec_header
    elf_ret,      \* the result of Elf64::load and the sections it read from; <<>> before
    found,        \* the last symbol search and what it returned
    sysgood,      \* the tracee's option PTRACE_O_TRACESYSGOOD
    reqs,         \* Tracer::start: what the arm of the latest wait status did, in order
    events,       \* ghost: number of state changes of the tracee under the tracer
    dw_file,      \* the file DebugInfoSection::load reads: bytes, section headers, ghost units
    dw_read,      \* read_size of DebugInfoSection::load
    dw_cus,       \* DebugInfoSection.header: the units loaded, each with its DIEs
    dw_ret        \* the end of DebugInfoSection::load: Ok, Err or panic; <<>> before

\* the debugger and its tracee
dbgVars == <<breakpoints, entry, sym_tbl, first_sig, pc, hit, regs, mem, tstate,
             pending, tsig, out, last, regTime, clock, orig,
             exec, badOp>>

\* ULEB128::decode and its reader
lebVars == <<reader, decoded, leb_in, overflow_checks>>

\* the parts of the program that run apart from the debugger's loop
\* an address object and its callers
adrVars == <<adr, adr_in, got>>

\* an Elf64 object apart from its symbol table
elfVars == <<elf_file, sec_header, elf_ret, found>>

\* the syscall tracer
trVars == <<sysgood, reqs, events>>

\* DebugInfoSection and the file it loads
dwVars == <<dw_file, dw_read, dw_cus, dw_ret>>

unitVars == <<lebVars, adrVars, elfVars, trVars, dwVars>>

\* all of them but one
notLeb == <<adrVars, elfVars, trVars, dwVars>>
notAdr == <<lebVars, elfVars, trVars, dwVars>>
notElf == <<lebVars, adrVars, trVars, dwVars>>
notTr == <<lebVars, adrVars, elfVars, dwVars>>
notDw == <<lebVars, adrVars, elfVars, trVars>>

\* the debugger and its tracee apart from Elf64.sym_tbl
dbgNoSym == <<breakpoints, entry, first_sig, pc, hit, regs, mem, tstate,
              pending, tsig, out, last, regTime, clock, orig, exec, badOp>>

vars == <<dbgVars, unitVars>>

\* no part other than the debugger is in use
UnitIdle ==
    /\ reader = <<>>
    /\ decoded = <<>>
    /\ leb_in = <<>>
    /\ overflow_checks = FALSE
    /\ adr = <<>>
    /\ adr_in = <<>>
    /\ got = <<>>
    /\ elf_file = <<>>
    /\ sec_header = <<>>
    /\ elf_ret = <<>>
    /\ found = <<>>
    /\ sysgood = FALSE
    /\ reqs = <<>>
    /\ events = 0
    /\ dw_file = <<>>
    /\ dw_read = 0
    /\ dw_cus = <<>>
    /\ dw_ret = <<>>

\* Option: None is the empty sequence, Some(x) the sequence of x alone
NoneOpt == <<>>

Some(x) == <<x>>

IsSome(o) == Len(o) = 1

Unwrap(o) == o[1]

----------------------------------------------------------------------------
\* src/src/address.rs

AdrFromRel(b_addr, address) == [kind |-> "rel", base |-> b_addr, addr |-> address]

AdrFromAbs(address) == [kind |-> "abs", base |-> 0, addr |-> address]

\* a get that leaves the base out
getAddrOnly(a) == a.addr

\* AddressTrait::get
get(a) == IF a.kind = "rel" THEN a.base + a.addr ELSE a.addr

----------------------------------------------------------------------------
\* src/src/debugger.rs: BreakpointList

\* position of the first entry whose final address is that of addr, 0 if none
FindIndex(bps, addr) ==
    IF \E i \in 1..Len(bps) : get(bps[i].addr) = get(addr)
    THEN CHOOSE i \in 1..Len(bps) :
            /\ get(bps[i].addr) = get(addr)
            /\ \A j \in 1..(i - 1) : get(bps[j].addr) # get(addr)
    ELSE 0

\* a register that does not look for the address first
registerAlways(bps, sym, bp, bp_inst) ==
    [bps |-> Append(bps, [sym |-> sym, addr |-> bp, inst |-> bp_inst]), ret |-> TRUE]

\* BreakpointList::register: the table after the call and the value returned
register(bps, sym, bp, bp_inst) ==
    IF FindIndex(bps, bp) # 0
    THEN [bps |-> bps, ret |-> FALSE]
    ELSE [bps |-> Append(bps, [sym |-> sym, addr |-> bp, inst |-> bp_inst]),
          ret |-> TRUE]

\* BreakpointList::search
search(bps, addr) ==
    IF FindIndex(bps, addr) = 0 THEN NoneOpt ELSE Some(bps[FindIndex(bps, addr)])

\* BreakpointList::has_addr
has_addr(bps, addr) == IsSome(search(bps, addr))

\* Vec::remove(index), index counted from 0
VecRemove(s, index) ==
    [j \in 1..(Len(s) - 1) |-> IF j <= index THEN s[j] ELSE s[j + 1]]

\* a delete that moves the last entry into the hole (Vec::swap_remove)
deleteSwap(bps, index) ==
    LET l == Len(bps) IN
    IF l = 0 \/ index >= l
    THEN [bps |-> bps, ret |-> NoneOpt]
    ELSE [bps |-> [j \in 1..(l - 1) |-> IF j = index + 1 THEN bps[l] ELSE bps[j]],
          ret |-> Some(bps[index + 1])]

\* BreakpointList::delete: the table after the call and the value returned
delete(bps, index) ==
    LET l == Len(bps) IN
    IF l = 0 \/ index >= l
    THEN [bps |-> bps, ret |-> NoneOpt]
    ELSE [bps |-> VecRemove(bps, index), ret |-> Some(bps[index + 1])]

----------------------------------------------------------------------------
\* The tracee's memory and the word-sized ptrace read / write

\* bytes of a machine word (AddressType / c_long on x86-64)
WordBytes == 8

\* the int 3 opcode
INT3 == 204

\* the low byte kept by the mask 0xFFFF_FFFF_FFFF_FF00, per byte of the word
MaskByte(i) == IF i = 1 THEN 0 ELSE 255

RECURSIVE BitAnd(_, _, _)
\* a & b on n bits
BitAnd(a, b, n) ==
    IF n = 0 THEN 0
    ELSE (IF a % 2 = 1 /\ b % 2 = 1 THEN 1 ELSE 0) + 2 * BitAnd(a \div 2, b \div 2, n - 1)

RECURSIVE BitOr(_, _, _)
\* a | b on n bits
BitOr(a, b, n) ==
    IF n = 0 THEN 0
    ELSE (IF a % 2 = 1 \/ b % 2 = 1 THEN 1 ELSE 0) + 2 * BitOr(a \div 2, b \div 2, n - 1)

\* an int_code that keeps the low byte and sets the one above it
int_codeHigh(inst) ==
    [i \in 1..WordBytes |-> IF i = 2 THEN INT3 ELSE inst[i]]

\* (0xFFFF_FFFF_FFFF_FF00 & inst) | 0xCC, on the little-endian bytes of the word
int_code(inst) ==
    [i \in 1..WordBytes |->
        BitOr(BitAnd(MaskByte(i), inst[i], 8), IF i = 1 THEN INT3 ELSE 0, 8)]

\* the little-endian bytes of the word n
RECURSIVE ByteAt(_, _)
ByteAt(n, i) == IF i = 1 THEN n % 256 ELSE ByteAt(n \div 256, i - 1)

ToWord(n) == [i \in 1..WordBytes |-> ByteAt(n, i)]

\* ptrace can read or write a whole word at a
Mapped(m, a) == a \in DOMAIN m /\ (a + WordBytes - 1) \in DOMAIN m

\* ptrace::read(pid, a)
PtraceRead(m, a) == [i \in 1..WordBytes |-> m[a + i - 1]]

\* a write that stores the low byte of the word only
PtraceWriteLowByte(m, a, w) == [m EXCEPT ![a] = w[1]]

\* ptrace::write(pid, a, w)
PtraceWrite(m, a, w) ==
    [x \in DOMAIN m |-> IF x >= a /\ x < a + WordBytes THEN w[x - a + 1] ELSE m[x]]

----------------------------------------------------------------------------
\* Text: the characters of the strings that the program parses as numbers

Chars(tok) ==
    CASE tok = "0" -> <<"0">>
      [] tok = "1" -> <<"1">>
      [] tok = "2" -> <<"2">>
      [] tok = "3" -> <<"3">>
      [] tok = "x" -> <<"x">>
      [] tok = "-1" -> <<"-", "1">>
      [] tok = "10" -> <<"1", "0">>
      [] tok = "18" -> <<"1", "8">>
      [] tok = "7f" -> <<"7", "f">>
      [] tok = "0x11" -> <<"0", "x", "1", "1">>
      [] tok = "0x0x1A" -> <<"0", "x", "0", "x", "1", "A">>
      [] tok = "0xdead" -> <<"0", "x", "d", "e", "a", "d">>
      [] tok = "0x" -> <<"0", "x">>
      [] tok = "zz" -> <<"z", "z">>
      [] OTHER -> <<"?">>

\* char::to_digit(radix): the digit's value, -1 if it is no digit of the radix
ToDigit(c, radix) ==
    LET v == CASE c = "0" -> 0 [] c = "1" -> 1 [] c = "2" -> 2 [] c = "3" -> 3
               [] c = "4" -> 4 [] c = "5" -> 5 [] c = "6" -> 6 [] c = "7" -> 7
               [] c = "8" -> 8 [] c = "9" -> 9
               [] c \in {"a", "A"} -> 10 [] c \in {"b", "B"} -> 11
               [] c \in {"c", "C"} -> 12 [] c \in {"d", "D"} -> 13
               [] c \in {"e", "E"} -> 14 [] c \in {"f", "F"} -> 15
               [] OTHER -> -1
    IN IF v < radix THEN v ELSE -1

RECURSIVE Digits(_, _, _)
\* the value of the digit string cs read after acc, -1 on a character that is no digit
Digits(cs, radix, acc) ==
    IF cs = <<>> THEN acc
    ELSE IF ToDigit(Head(cs), radix) < 0 THEN -1
    ELSE Digits(Tail(cs), radix, acc * radix + ToDigit(Head(cs), radix))

\* usize::from_str_radix / u64::from_str_radix: the value, -1 for Err
from_str_radix(cs, radix) ==
    LET body == IF cs # <<>> /\ Head(cs) = "+" THEN Tail(cs) ELSE cs
    IN IF body = <<>> THEN -1 ELSE Digits(body, radix, 0)

RECURSIVE trim_start_matches_0x(_)
\* str::trim_start_matches("0x"): every leading repetition of the prefix is removed
trim_start_matches_0x(cs) ==
    IF Len(cs) >= 2 /\ cs[1] = "0" /\ cs[2] = "x"
    THEN trim_start_matches_0x(SubSeq(cs, 3, Len(cs)))
    ELSE cs

\* usize::from_str_radix(val.trim_start_matches("0x"), 16)
ParseHex(tok) == from_str_radix(trim_start_matches_0x(Chars(tok)), 16)

\* no.parse::<usize>()
ParseUsize(tok) == from_str_radix(Chars(tok), 10)

----------------------------------------------------------------------------
\* The inputs of a run: the tracee's image, its memory map and its ELF file

\* Debugger.path
ProgPath == "/bin/t"

\* /proc/<pid>/maps as MemoryMap::load splits it: start address, permission, pathname
MapsFile ==
    << [start_address |-> "7f", permission |-> "rw-p", path |-> "none"],
       [start_address |-> "10", permission |-> "r-xp", path |-> ProgPath],
       [start_address |-> "18", permission |-> "rw-p", path |-> ProgPath] >>

\* MemoryMap::load followed by get(path): the MapInfo of the path, in file order
MapInfoOf(path) == SelectSeq(MapsFile, LAMBDA l : l.path = path)

\* the load base that load_elf computes from the map
LoadBase == from_str_radix(Chars(MapInfoOf(ProgPath)[1].start_address), 16)

\* number of bytes of the tracee's image that the model keeps
ImgSize == 25

\* the addresses of the tracee's image
ImgAddrs == LoadBase..(LoadBase + ImgSize - 1)

\* the image as loaded: every byte differs from its neighbours and from int 3
Image == [a \in ImgAddrs |-> 65 + (a - LoadBase)]

\* src/src/elf/elf64.rs: Elf64::load. A file is its section-header table (the type
\* and the name of every section, in table order), e_shstrndx, and what its
\* sections hold.

\* Elf64::to_shtype, for the types below 0x8000_0000
to_shtype(t) ==
    CASE t = 0 -> "Null"
      [] t = 1 -> "Progbit"
      [] t = 2 -> "ShmTab"
      [] t = 3 -> "StrTab"
      [] t = 4 -> "Rela"
      [] t = 5 -> "Hash"
      [] t = 6 -> "Dynamic"
      [] t = 7 -> "Note"
      [] t = 8 -> "Nobits"
      [] t = 9 -> "Rel"
      [] t = 10 -> "Shlib"
      [] t = 11 -> "DynSym"
      [] t = 1879048192 -> "LoProc"
      [] t = 2147483647 -> "HiProc"
      [] OTHER -> "Unknown"

\* MASK_ST_TYPE
MASK_ST_TYPE == 15

\* a to_st_type that matches on the whole of st_info
to_st_typeNoMask(t) ==
    CASE t = 0 -> "Notype"
      [] t = 1 -> "Object"
      [] t = 2 -> "Func"
      [] OTHER -> "Unknown"

\* Elf64::to_st_type
to_st_type(t) ==
    CASE BitAnd(t, MASK_ST_TYPE, 8) = 0 -> "Notype"
      [] BitAnd(t, MASK_ST_TYPE, 8) = 1 -> "Object"
      [] BitAnd(t, MASK_ST_TYPE, 8) = 2 -> "Func"
      [] OTHER -> "Unknown"

\* Vec::pop on the collected filter: the last section that passes, if any
pop(s) == IF s = <<>> THEN NoneOpt ELSE Some(s[Len(s)])

\* Iterator::find: the first section that passes, if any
find(s) == IF s = <<>> THEN NoneOpt ELSE Some(s[1])

\* the section headers after the first loop of load_sec_header: sh_no is the index
SecHeaders(file) ==
    [i \in 1..Len(file.secs) |->
        [sh_no |-> i - 1, sh_type |-> file.secs[i].sh_type, sh_name |-> file.secs[i].name,
         sh_rname |-> ""]]

\* Elf64::read_strtab_of_sec: the StrTab section whose number is e_shstrndx
read_strtab_of_sec(header, e_shstrndx) ==
    pop(SelectSeq(header,
                  LAMBDA h : to_shtype(h.sh_type) = "StrTab" /\ h.sh_no = e_shstrndx))

\* Elf64::read_strtab: a StrTab section whose number is not e_shstrndx
read_strtab(header, e_shstrndx) ==
    pop(SelectSeq(header,
                  LAMBDA h : to_shtype(h.sh_type) = "StrTab" /\ h.sh_no # e_shstrndx))

\* Elf64::load_symtab: the section the symbols are read from
symtab_of(header) ==
    pop(SelectSeq(header, LAMBDA h : to_shtype(h.sh_type) = "ShmTab"))

\* what the string table sections of a file hold: the string at each offset (the
\* offsets are counted in strings)
StrTabData(name) ==
    CASE name = ".strtab" -> <<"main", "_Z3foov", "far", "g_var">>
      [] name = ".dynstr" -> <<"puts", "exit", "main">>
      [] OTHER -> <<>>

\* Elf64::to_string on a string table: the string at the offset, empty beyond the end
to_string(buf, offset) == IF offset \in 1..Len(buf) THEN buf[offset] ELSE ""

\* what the symbol table sections of a file hold: st_name, st_info, st_value
SymTabData(name) ==
    CASE name = ".symtab" ->
           << [st_name |-> 1, st_info |-> 16, st_value |-> 5],
              [st_name |-> 1, st_info |-> 18, st_value |-> 0],
              [st_name |-> 2, st_info |-> 18, st_value |-> 1],
              [st_name |-> 3, st_info |-> 2,  st_value |-> 9],
              [st_name |-> 3, st_info |-> 17, st_value |-> 12],
              [st_name |-> 4, st_info |-> 17, st_value |-> 17] >>
      [] name = ".symtab.bak" ->
           << [st_name |-> 4, st_info |-> 3,  st_value |-> 2],
              [st_name |-> 4, st_info |-> 34, st_value |-> 3],
              [st_name |-> 1, st_info |-> 33, st_value |-> 4],
              [st_name |-> 1, st_info |-> 20, st_value |-> 6],
              [st_name |-> 1, st_info |-> 2,  st_value |-> 7],
              [st_name |-> 1, st_info |-> 18, st_value |-> 8] >>
      [] OTHER -> <<>>

\* Elf64::load_symtab: the symbols of the section symtab with their names out of the
\* section strtab
load_symtab(symtab, strtab) ==
    LET raw == SymTabData(symtab.sh_name)
        strtab_buf == StrTabData(strtab.sh_name)
    IN [i \in 1..Len(raw) |->
          [st_rname |-> to_string(strtab_buf, raw[i].st_name),
           st_info  |-> raw[i].st_info,
           st_type  |-> to_st_type(raw[i].st_info),
           st_value |-> raw[i].st_value]]

\* Dwarf::search_debug_*_sec: the first section of the name
search_sec(header, name) == find(SelectSeq(header, LAMBDA h : h.sh_rname = name))

\* Dwarf::load: Err when .debug_info, .debug_abbrev or .debug_str is missing or
\* DebugInfoSection::load fails, then load_debug_line
dwarf_load(header, parse) ==
    IF ~IsSome(search_sec(header, ".debug_info")) THEN "Not found debug_info section header"
    ELSE IF ~IsSome(search_sec(header, ".debug_abbrev")) THEN "Not found debug_abbrev section header"
    ELSE IF ~IsSome(search_sec(header, ".debug_str")) THEN "Not found debug_str section header"
    ELSE IF parse # "Ok" THEN "debug_info"
    ELSE IF ~IsSome(search_sec(header, ".debug_line")) THEN "Not found debug_line section header"
    ELSE "Ok"

\* Elf64::load on a file: its result, the fields it has set, and the numbers of the
\* sections it took the section names, the symbol names and the symbols from
Elf64Load(file) ==
    LET hdrs == SecHeaders(file)
        shstr == read_strtab_of_sec(hdrs, file.e_shstrndx)
        named == [i \in 1..Len(hdrs) |-> [hdrs[i] EXCEPT !.sh_rname = hdrs[i].sh_name]]
        strtab == read_strtab(named, file.e_shstrndx)
        symtab == symtab_of(named)
        none == [res |-> "", sec_header |-> hdrs, sym_tbl |-> <<>>,
                 shstr |-> -1, strtab |-> -1, symtab |-> -1]
    IN IF ~IsSome(shstr) THEN [none EXCEPT !.res = "Not found strtab"]
       ELSE LET a == [none EXCEPT !.sec_header = named, !.shstr = Unwrap(shstr).sh_no] IN
       IF ~IsSome(strtab) THEN [a EXCEPT !.res = "Not found strtab"]
       ELSE LET b == [a EXCEPT !.strtab = Unwrap(strtab).sh_no] IN
       IF ~IsSome(symtab) THEN [b EXCEPT !.res = "Not found symtab"]
       ELSE LET c == [b EXCEPT !.symtab = Unwrap(symtab).sh_no,
                               !.sym_tbl = load_symtab(Unwrap(symtab), Unwrap(strtab))]
            IN [c EXCEPT !.res = dwarf_load(named, file.parse)]

\* a section of a file: the type and the name
Sec(t, n) == [sh_type |-> t, name |-> n]

\* the tracee's file: the sections of a program built with debug information
GoodFile ==
    [secs |-> << Sec(0, ""), Sec(1, ".text"), Sec(3, ".dynstr"), Sec(2, ".symtab"),
                 Sec(3, ".strtab"), Sec(1, ".debug_info"), Sec(1, ".debug_abbrev"),
                 Sec(1, ".debug_str"), Sec(1, ".debug_line"), Sec(3, ".shstrtab") >>,
     e_shstrndx |-> 9,
     parse |-> "Ok"]

\* the symbol table that Elf64::load builds (st_rname, st_info, st_type, st_value)
SymTblOfFile == Elf64Load(GoodFile).sym_tbl

\* symbolic_demangle::demangle: a mangled name's source form, any other name as it is
demangle(name) == IF name = "_Z3foov" THEN "foo()" ELSE name

\* position in the table of the first symbol of the type with the demangled name, 0 if none
FirstSym(tbl, sym_name, type) ==
    IF \E i \in 1..Len(tbl) : demangle(tbl[i].st_rname) = sym_name /\ tbl[i].st_type = type
    THEN CHOOSE i \in 1..Len(tbl) :
            /\ demangle(tbl[i].st_rname) = sym_name /\ tbl[i].st_type = type
            /\ \A j \in 1..(i - 1) :
                  ~(demangle(tbl[j].st_rname) = sym_name /\ tbl[j].st_type = type)
    ELSE 0

\* a function search that does not look at the symbol's type
search_func_symAnyType(tbl, sym_name) ==
    IF \E i \in 1..Len(tbl) : demangle(tbl[i].st_rname) = sym_name
    THEN Some(tbl[CHOOSE i \in 1..Len(tbl) :
                /\ demangle(tbl[i].st_rname) = sym_name
                /\ \A j \in 1..(i - 1) : demangle(tbl[j].st_rname) # sym_name])
    ELSE NoneOpt

\* Elf64::search_func_sym
search_func_sym(tbl, sym_name) ==
    IF FirstSym(tbl, sym_name, "Func") = 0 THEN NoneOpt
    ELSE Some(tbl[FirstSym(tbl, sym_name, "Func")])

\* Elf64::search_var_sym
search_var_sym(tbl, sym_name) ==
    IF FirstSym(tbl, sym_name, "Object") = 0 THEN NoneOpt
    ELSE Some(tbl[FirstSym(tbl, sym_name, "Object")])

\* the registers that set_regs and show_regs name
RegNames ==
    {"orig_rax", "rip", "rsp", "r15", "r14", "r13", "r12", "r11", "r10", "r9", "r8",
     "rax", "rcx", "rdx", "rsi", "rdi", "cs", "eflags", "ss", "fs_base", "gs_base",
     "ds", "es", "fs", "gs"}

\* the registers in the order in which show_regs prints them
RegOrder ==
    <<"orig_rax", "rip", "rsp", "r15", "r14", "r13", "r12", "r11", "r10", "r9", "r8",
      "rax", "rcx", "rdx", "rsi", "rdi", "cs", "eflags", "ss", "fs_base", "gs_base",
      "ds", "es", "fs", "gs">>

\* a to_sym_addr that leaves the entry address in
to_sym_addrAbs(e, addr) == addr

\* Debugger::to_sym_addr
to_sym_addr(e, addr) == addr - e

----------------------------------------------------------------------------
\* The shell's command lines

\* the lines typed at the prompt, split at white space
Lines ==
    { <<>>, <<"h">>, <<"bl">>, <<"c">>, <<"s">>, <<"quit">>, <<"c", "x">>,
      <<"b", "main">>, <<"b", "foo()">>, <<"b", "g_var">>, <<"b">>,
      <<"d", "0">>, <<"d", "1">>, <<"d", "x">>,
      <<"p", "g_var">>, <<"p", "main">>,
      <<"set", "var", "g_var", "0xdead">>, <<"set", "var", "g_var", "zz">>,
      <<"set", "var", "nosuch", "0xdead">>,
      <<"set", "regs", "rip", "0x11">>, <<"set", "regs", "rip", "zz">>,
      <<"set", "regs", "bogus", "0x11">>,
      <<"info", "regs">>, <<"info", "debugsec">>, <<"foo">> }

\* the arm of shell's match that a line takes, in the order of the arms
handlerOf(coms) ==
    LET n == Len(coms) IN
    IF n = 0 THEN "empty"
    ELSE IF coms[1] = "b" /\ n = 2 THEN "sh_breakpoint"
    ELSE IF coms[1] = "d" /\ n = 2 THEN "sh_release_break"
    ELSE IF coms[1] = "p" /\ n = 2 THEN "sh_read_sym"
    ELSE IF coms[1] = "set" /\ n = 4 /\ coms[2] = "var" THEN "sh_write_sym"
    ELSE IF coms[1] = "c" THEN "cont"
    ELSE IF coms[1] = "s" THEN "step"
    ELSE IF coms[1] = "h" THEN "help"
    ELSE IF coms[1] = "bl" THEN "show_break"
    ELSE IF coms[1] = "info" /\ n = 2 /\ coms[2] = "regs" THEN "show_regs"
    ELSE IF coms[1] = "info" /\ n = 2 /\ coms[2] = "debugsec" THEN "show_debug"
    ELSE IF coms[1] = "set" /\ n = 4 /\ coms[2] = "regs" THEN "set_regs"
    ELSE IF coms[1] = "quit" THEN "sh_quit"
    ELSE "not support command"

----------------------------------------------------------------------------
\* src/src/debugger.rs: Debugger

Msg(m) == [msg |-> m, val |-> <<>>]

\* the ghost record of the tracee's execution, as cont or step leaves it:
\* the instructions executed since (n, counted up to 2), and of the last one the
\* address, the word there and the rip it left
Resumed(mode) == [from |-> -1, to |-> -1, n |-> 0, word |-> <<>>, mode |-> mode]

\* the ghost record once the controller has taken the tracee's stop
Idle == Resumed("")

Last(c, l, b, r) ==
    [cmd |-> c, coms |-> l, bp |-> b, ret |-> r, resumed |-> "", step |-> Idle]

\* the tracee is in a stop that a wait has returned
TraceeStopped == tstate = "stop" /\ ~pending

\* a breakpoint that registers the patched word in place of the word it read
breakpointSavesPatched(e, bps, m, addr, sym) ==
    LET address == AdrFromRel(e, addr)
        a == get(address)
    IN IF ~Mapped(m, a) THEN [ok |-> FALSE, mem |-> m, bps |-> bps, ret |-> FALSE]
       ELSE LET inst == PtraceRead(m, a)
                r == register(bps, sym, address, int_code(inst))
            IN [ok |-> TRUE, mem |-> PtraceWrite(m, a, int_code(inst)),
                bps |-> r.bps, ret |-> r.ret]

\* Debugger::breakpoint: ok is FALSE when ptrace::read fails (the expect panics)
breakpoint(e, bps, m, addr, sym) ==
    LET address == AdrFromRel(e, addr)
        a == get(address)
    IN IF ~Mapped(m, a) THEN [ok |-> FALSE, mem |-> m, bps |-> bps, ret |-> FALSE]
       ELSE LET inst == PtraceRead(m, a)
                r == register(bps, sym, address, inst)
            IN [ok |-> TRUE, mem |-> PtraceWrite(m, a, int_code(inst)),
                bps |-> r.bps, ret |-> r.ret]

\* Debugger::release_break
release_break(bps, m, index) ==
    LET d == delete(bps, index)
    IN IF IsSome(d.ret)
       THEN [mem |-> PtraceWrite(m, get(Unwrap(d.ret).addr), Unwrap(d.ret).inst),
             bps |-> d.bps, ret |-> TRUE]
       ELSE [mem |-> m, bps |-> d.bps, ret |-> FALSE]

\* a recovery that leaves rip behind the trap
recover_regsNoRewind(rgs, rip_bp) == rgs

\* recover_bp: the registers written back before the step
recover_regs(rgs, rip_bp) == [rgs EXCEPT !["rip"] = get(rip_bp)]

\* a recovery that steps over the trap without writing the saved word back
RecoverBeginNoRestore(rip_bp) ==
    /\ mem' = mem
    /\ regs' = recover_regs(regs, rip_bp)
    /\ tstate' = "step"
    /\ exec' = Resumed("step")
    /\ pc' = "recover"
    /\ hit' = get(rip_bp)
    /\ last' = [Last("recover_bp", <<>>, get(rip_bp), FALSE) EXCEPT !.resumed = exec.mode]
    /\ UNCHANGED out

\* the first part of recover_bp, up to its waitpid
RecoverBegin(rip_bp) ==
    LET bp_info == Unwrap(search(breakpoints, rip_bp))
    IN IF ~Mapped(mem, get(rip_bp))
       THEN /\ pc' = "panic"
            /\ out' = Msg("ptrace::write is failed")
            /\ last' = Last("panic", <<>>, get(rip_bp), FALSE)
            /\ UNCHANGED <<hit, regs, mem, tstate, exec>>
       ELSE /\ mem' = PtraceWrite(mem, get(rip_bp), bp_info.inst)
            /\ regs' = recover_regs(regs, rip_bp)
            /\ tstate' = "step"
            /\ exec' = Resumed("step")
            /\ pc' = "recover"
            /\ hit' = get(rip_bp)
            /\ last' = [Last("recover_bp", <<>>, get(rip_bp), FALSE)
                          EXCEPT !.resumed = exec.mode]
            /\ UNCHANGED out

\* Debugger::stopped_handler, up to the shell's first prompt or recover_bp's waitpid
stopped_handler(sig) ==
    IF sig = "SIGTRAP"
    THEN LET rip == regs["rip"] - 1
             bp == AdrFromAbs(rip)
         IN IF has_addr(breakpoints, bp)
            THEN RecoverBegin(bp)
            ELSE /\ pc' = "shell"
                 /\ last' = Last("stopped_handler", <<>>, -1, FALSE)
                 /\ exec' = Idle
                 /\ UNCHANGED <<hit, regs, mem, tstate, out>>
    ELSE /\ pc' = "wait"
         /\ last' = Last("stopped_handler", <<>>, -1, FALSE)
         /\ exec' = Idle
         /\ UNCHANGED <<hit, regs, mem, tstate, out>>

\* the files the tracee may have been started from: the program with its debug
\* information, the same without .debug_line, and the same without .symtab
TraceeFiles ==
    { GoodFile,
      [GoodFile EXCEPT !.secs = SelectSeq(GoodFile.secs, LAMBDA k : k.name # ".debug_line"),
                       !.e_shstrndx = 8],
      [GoodFile EXCEPT !.secs = SelectSeq(GoodFile.secs, LAMBDA k : k.name # ".symtab"),
                       !.e_shstrndx = 8] }

\* the results of Elf64::load on the tracee's file: Ok or the error
LoadResults == {Elf64Load(f).res : f \in TraceeFiles}

\* Debugger::start: first_sig after the match on the wait status ev
first_sigAfter(ev) == FALSE

\* Debugger::start, WaitStatus::Exited
WaitExited ==
    /\ UNCHANGED unitVars
    /\ pc = "wait" /\ pending /\ tstate = "exit"
    /\ pending' = FALSE
    /\ pc' = "done"
    /\ out' = Msg("exit child process")
    /\ last' = Last("Exited", <<>>, -1, FALSE)
    /\ exec' = Idle
    /\ UNCHANGED <<breakpoints, entry, sym_tbl, first_sig, hit, regs, mem, tstate, tsig,
                   regTime, clock, orig, badOp>>

\* the status the controller process ends with: std::process::exit(0) in sh_quit,
\* the return of main after the loop of start, 101 of a panic
ExitStatus(p) == IF p = "panic" THEN 101 ELSE 0

\* Debugger::start, WaitStatus::Stopped: load_elf at the first signal, then stopped_handler
WaitStopped ==
    /\ UNCHANGED unitVars
    /\ pc = "wait" /\ pending /\ tstate = "stop"
    /\ pending' = FALSE
    /\ first_sig' = first_sigAfter("Stopped")
    /\ IF first_sig
       THEN \E res \in LoadResults :
              /\ entry' = LoadBase
              /\ IF res = "Ok"
                 THEN /\ sym_tbl' = SymTblOfFile
                      /\ stopped_handler(tsig)
                 ELSE \* sh_quit
                      /\ sym_tbl' = sym_tbl
                      /\ tstate' = "dead"
                      /\ pc' = "exit"
                      /\ out' = Msg("cannot parse ELF")
                      /\ last' = Last("sh_quit", <<res>>, -1, FALSE)
                      /\ exec' = Idle
                      /\ UNCHANGED <<hit, regs, mem>>
       ELSE /\ UNCHANGED <<entry, sym_tbl>>
            /\ stopped_handler(tsig)
    /\ UNCHANGED <<breakpoints, tsig, regTime, clock, orig, badOp>>

\* Debugger::start, WaitStatus::Signaled: the tracee was killed by a signal
WaitSignaled ==
    /\ UNCHANGED unitVars
    /\ pc = "wait" /\ pending /\ tstate = "sig"
    /\ pending' = FALSE
    /\ tstate' = "dead"
    /\ first_sig' = first_sigAfter("Signaled")
    /\ out' = Msg("recv signal")
    /\ last' = Last("Signaled", <<>>, -1, FALSE)
    /\ exec' = Idle
    /\ UNCHANGED <<breakpoints, entry, sym_tbl, pc, hit, regs, mem, tsig,
                   regTime, clock, orig, badOp>>

\* the wait statuses that are neither Exited, Stopped nor Signaled
OtherEvents == {"PtraceEvent", "Continued", "StillAlive", "PtraceSyscall"}

\* Debugger::start, the arms Continued and StillAlive: the tracee is as it was
WaitOther ==
    /\ UNCHANGED unitVars
    /\ pc = "wait" /\ tstate # "dead"
    /\ \E ev \in {"Continued", "StillAlive"} :
         /\ first_sig' = first_sigAfter(ev)
         /\ out' = Msg(ev)
         /\ last' = Last(ev, <<>>, -1, FALSE)
    /\ UNCHANGED <<breakpoints, entry, sym_tbl, pc, hit, regs, mem, tstate, pending, tsig,
                   regTime, clock, orig, exec, badOp>>

\* Debugger::start, the arms PtraceEvent and the catch-all (PtraceSyscall): the
\* running tracee has entered a ptrace stop that is no signal delivery stop
WaitPtraceStop ==
    /\ UNCHANGED unitVars
    /\ pc = "wait" /\ tstate \in {"run", "step"} /\ ~pending
    /\ \E ev \in {"PtraceEvent", "PtraceSyscall"} :
         /\ first_sig' = first_sigAfter(ev)
         /\ out' = Msg(ev)
         /\ last' = Last(ev, <<>>, -1, FALSE)
    /\ tstate' = "stop"
    /\ tsig' = "SIGTRAP"
    /\ UNCHANGED <<breakpoints, entry, sym_tbl, pc, hit, regs, mem, pending,
                   regTime, clock, orig, exec, badOp>>

\* Debugger::start, waitpid fails (ECHILD once the tracee is reaped): expect panics
WaitFailed ==
    /\ UNCHANGED unitVars
    /\ pc = "wait" /\ tstate = "dead"
    /\ pc' = "panic"
    /\ out' = Msg("wait child process failed")
    /\ last' = Last("panic", <<>>, -1, FALSE)
    /\ UNCHANGED <<breakpoints, entry, sym_tbl, first_sig, hit, regs, mem, tstate, pending,
                   tsig, regTime, clock, orig, exec, badOp>>

\* the second part of recover_bp: its waitpid returns Stopped and the breakpoint
\* is set again, or it returns another status and the match panics
RecoverWait ==
    /\ UNCHANGED unitVars
    /\ pc = "recover" /\ pending /\ tstate \in {"stop", "exit", "sig"}
    /\ pending' = FALSE
    /\ IF tstate = "stop"
       THEN LET bp_info == Unwrap(search(breakpoints, AdrFromAbs(hit)))
                addr == get(bp_info.addr)
                r == breakpoint(entry, breakpoints, mem, to_sym_addr(entry, addr),
                                bp_info.sym)
            IN IF r.ok
               THEN /\ mem' = r.mem
                    /\ breakpoints' = r.bps
                    /\ pc' = "shell"
                    /\ out' = [msg |-> "break at", val |-> hit]
                    /\ last' = [last EXCEPT !.ret = TRUE, !.step = exec]
                    /\ hit' = -1
                    /\ UNCHANGED tstate
               ELSE /\ pc' = "panic"
                    /\ out' = Msg("ptrace::read is failed")
                    /\ last' = Last("panic", <<>>, hit, FALSE)
                    /\ UNCHANGED <<mem, breakpoints, hit, tstate>>
       ELSE /\ pc' = "panic"
            /\ tstate' = "dead"
            /\ out' = Msg("recover_bp do not expect event")
            /\ last' = Last("panic", <<>>, hit, FALSE)
            /\ UNCHANGED <<mem, breakpoints, hit>>
    /\ exec' = Idle
    /\ UNCHANGED <<entry, sym_tbl, first_sig, regs, tsig, regTime, clock, orig,
                   badOp>>

\* a recover_bp that goes on to the shell after a status it does not expect
RecoverOtherGoesOn ==
    /\ UNCHANGED unitVars
    /\ pc = "recover"
    /\ \E ev \in OtherEvents :
         /\ out' = Msg("recover_bp do not expect event")
         /\ last' = Last("recover_bp", <<ev>>, hit, FALSE)
    /\ pc' = "shell"
    /\ UNCHANGED <<breakpoints, entry, sym_tbl, first_sig, hit, regs, mem, tstate, pending,
                   tsig, regTime, clock, orig, exec, badOp>>

\* recover_bp's waitpid returns a status that is no state change after the step
RecoverOther ==
    /\ UNCHANGED unitVars
    /\ pc = "recover"
    /\ \E ev \in OtherEvents :
         /\ out' = Msg("recover_bp do not expect event")
         /\ last' = Last("panic", <<ev>>, hit, FALSE)
    /\ pc' = "panic"
    /\ UNCHANGED <<breakpoints, entry, sym_tbl, first_sig, hit, regs, mem, tstate, pending,
                   tsig, regTime, clock, orig, exec, badOp>>

----------------------------------------------------------------------------
\* The tracee

\* where an instruction that is no int 3 may leave rip, as offsets in the image
JumpOffsets == {0, 1, 9}

NextRips == {LoadBase + o : o \in JumpOffsets}

\* the ghost record of the execution of the instruction at r, which leaves rip at t
Executed(r, t) ==
    [from |-> r, to |-> t, n |-> IF exec.n < 2 THEN exec.n + 1 ELSE 2,
     word |-> IF Mapped(mem, r) THEN PtraceRead(mem, r) ELSE <<>>, mode |-> exec.mode]

\* the child after fork: traceme, then execv stops it with SIGTRAP, or execv fails
TraceeExecve ==
    /\ UNCHANGED unitVars
    /\ tstate = "run" /\ exec.mode = "fork"
    /\ \E ok \in BOOLEAN : tstate' = IF ok THEN "stop" ELSE "exit"
    /\ pending' = TRUE
    /\ tsig' = "SIGTRAP"
    /\ exec' = [exec EXCEPT !.mode = "execve"]
    /\ UNCHANGED <<breakpoints, entry, sym_tbl, first_sig, pc, hit, regs, mem,
                   out, last, regTime, clock, orig, badOp>>

\* the tracee executes the int 3 at rip: SIGTRAP with rip behind the opcode
TraceeInt3 ==
    /\ UNCHANGED unitVars
    /\ tstate \in {"run", "step"} /\ exec.mode # "fork" /\ ~pending
    /\ regs["rip"] \in DOMAIN mem /\ mem[regs["rip"]] = INT3
    /\ regs' = [regs EXCEPT !["rip"] = regs["rip"] + 1]
    /\ exec' = Executed(regs["rip"], regs["rip"] + 1)
    /\ tstate' = "stop"
    /\ pending' = TRUE
    /\ tsig' = "SIGTRAP"
    /\ UNCHANGED <<breakpoints, entry, sym_tbl, first_sig, pc, hit, mem,
                   out, last, regTime, clock, orig, badOp>>

\* the tracee executes another instruction; under step it stops with SIGTRAP after it
TraceeInstr ==
    /\ UNCHANGED unitVars
    /\ tstate \in {"run", "step"} /\ exec.mode # "fork" /\ ~pending
    /\ regs["rip"] \in DOMAIN mem /\ mem[regs["rip"]] # INT3
    /\ \E t \in NextRips :
         /\ regs' = [regs EXCEPT !["rip"] = t]
         /\ exec' = Executed(regs["rip"], t)
    /\ IF tstate = "step"
       THEN tstate' = "stop" /\ pending' = TRUE /\ tsig' = "SIGTRAP"
       ELSE UNCHANGED <<tstate, pending, tsig>>
    /\ UNCHANGED <<breakpoints, entry, sym_tbl, first_sig, pc, hit, mem,
                   out, last, regTime, clock, orig, badOp>>

\* the tracee stops with another signal (a fault of the instruction at rip, a signal sent to it)
TraceeSignalStop ==
    /\ UNCHANGED unitVars
    /\ tstate \in {"run", "step"} /\ exec.mode # "fork" /\ ~pending
    /\ tstate' = "stop"
    /\ pending' = TRUE
    /\ tsig' = "SIGSEGV"
    /\ UNCHANGED <<breakpoints, entry, sym_tbl, first_sig, pc, hit, regs, mem,
                   out, last, regTime, clock, orig, exec, badOp>>

\* the tracee ends: it exits, or a signal kills it
TraceeEnds ==
    /\ UNCHANGED unitVars
    /\ tstate \in {"run", "step"} /\ exec.mode # "fork" /\ ~pending
    /\ \E how \in {"exit", "sig"} : tstate' = how
    /\ pending' = TRUE
    /\ UNCHANGED <<breakpoints, entry, sym_tbl, first_sig, pc, hit, regs, mem, tsig,
                   out, last, regTime, clock, orig, exec, badOp>>

----------------------------------------------------------------------------
\* Debugger::shell: one action for each arm of the match. Every action is one
\* turn of the loop: the prompt's read_regs, the line, the handler.

\* the turn of the loop for a line of handler h, whose effect is Body
ShellCmd(h, Body(_)) ==
    /\ UNCHANGED unitVars
    /\ pc = "shell"
    /\ \E coms \in Lines :
         /\ handlerOf(coms) = h
         /\ IF TraceeStopped
            THEN Body(coms) /\ UNCHANGED badOp
            ELSE \* getregs on a tracee that is not stopped fails: the expect panics
                 /\ badOp' = TRUE
                 /\ pc' = "panic"
                 /\ out' = Msg("read_regs is failed")
                 /\ last' = Last("panic", coms, -1, FALSE)
                 /\ UNCHANGED <<breakpoints, regs, mem, tstate, orig, exec>>
    /\ UNCHANGED <<entry, sym_tbl, first_sig, hit, pending, tsig, regTime, clock>>

\* the empty line: continue
sh_empty(coms) ==
    /\ out' = Msg("")
    /\ last' = Last("empty", coms, -1, FALSE)
    /\ UNCHANGED <<breakpoints, pc, regs, mem, tstate, orig, exec>>

\* Debugger::sh_breakpoint
sh_breakpoint(coms) ==
    LET sym == coms[2]
        s == search_func_sym(sym_tbl, sym)
    IN IF IsSome(s)
       THEN LET addr == Unwrap(s).st_value
                r == breakpoint(entry, breakpoints, mem, addr, sym)
                a == entry + addr
                new == \A i \in 1..Len(breakpoints) : get(breakpoints[i].addr) # a
            IN IF r.ok
               THEN /\ mem' = r.mem
                    /\ breakpoints' = r.bps
                    /\ orig' = IF new THEN [orig EXCEPT ![a] = PtraceRead(mem, a)] ELSE orig
                    /\ out' = [msg |-> "BreakPoint at", val |-> addr]
                    /\ last' = Last("sh_breakpoint", coms, a, new)
                    /\ UNCHANGED <<pc, regs, tstate, exec>>
               ELSE /\ pc' = "panic"
                    /\ out' = Msg("ptrace::read is failed")
                    /\ last' = Last("panic", coms, a, FALSE)
                    /\ UNCHANGED <<breakpoints, regs, mem, tstate, orig, exec>>
       ELSE /\ out' = Msg("not found symbol")
            /\ last' = Last("sh_breakpoint", coms, -1, FALSE)
            /\ UNCHANGED <<breakpoints, pc, regs, mem, tstate, orig, exec>>

\* Debugger::sh_release_break: parse::<usize>().unwrap() panics on a line that is no number
sh_release_break(coms) ==
    LET no == ParseUsize(coms[2])
    IN IF no < 0
       THEN /\ pc' = "panic"
            /\ out' = Msg("unwrap on an Err value")
            /\ last' = Last("sh_release_break", coms, -1, FALSE)
            /\ UNCHANGED <<breakpoints, regs, mem, tstate, orig, exec>>
       ELSE LET r == release_break(breakpoints, mem, no)
                a == IF no < Len(breakpoints) THEN get(breakpoints[no + 1].addr) ELSE -1
            IN /\ mem' = r.mem
               /\ breakpoints' = r.bps
               /\ orig' = IF a # -1 THEN [orig EXCEPT ![a] = <<>>] ELSE orig
               /\ out' = IF r.ret THEN Msg("release Breakpoint") ELSE Msg("")
               /\ last' = Last("sh_release_break", coms, a, r.ret)
               /\ UNCHANGED <<pc, regs, tstate, exec>>

\* Debugger::sh_read_sym
sh_read_sym(coms) ==
    LET s == search_var_sym(sym_tbl, coms[2])
    IN IF IsSome(s)
       THEN LET addr == AdrFromRel(entry, Unwrap(s).st_value)
            IN IF Mapped(mem, get(addr))
               THEN /\ out' = [msg |-> "0x", val |-> PtraceRead(mem, get(addr))]
                    /\ last' = Last("sh_read_sym", coms, get(addr), TRUE)
                    /\ UNCHANGED <<breakpoints, pc, regs, mem, tstate, orig, exec>>
               ELSE /\ pc' = "panic"
                    /\ out' = Msg("ptrace::read is failed")
                    /\ last' = Last("panic", coms, get(addr), FALSE)
                    /\ UNCHANGED <<breakpoints, regs, mem, tstate, orig, exec>>
       ELSE /\ out' = Msg("not found symbol")
            /\ last' = Last("sh_read_sym", coms, -1, FALSE)
            /\ UNCHANGED <<breakpoints, pc, regs, mem, tstate, orig, exec>>

\* Debugger::sh_write_sym
sh_write_sym(coms) ==
    LET val == ParseHex(coms[4])
        s == search_var_sym(sym_tbl, coms[3])
    IN IF val < 0
       THEN /\ out' = Msg("parse error")
            /\ last' = Last("sh_write_sym", coms, -1, FALSE)
            /\ UNCHANGED <<breakpoints, pc, regs, mem, tstate, orig, exec>>
       ELSE IF IsSome(s)
       THEN LET addr == AdrFromRel(entry, Unwrap(s).st_value)
            IN IF Mapped(mem, get(addr))
               THEN /\ mem' = PtraceWrite(mem, get(addr), ToWord(val))
                    /\ out' = Msg("")
                    /\ last' = Last("sh_write_sym", coms, get(addr), TRUE)
                    /\ UNCHANGED <<breakpoints, pc, regs, tstate, orig, exec>>
               ELSE /\ pc' = "panic"
                    /\ out' = Msg("ptrace::write is failed")
                    /\ last' = Last("panic", coms, get(addr), FALSE)
                    /\ UNCHANGED <<breakpoints, regs, mem, tstate, orig, exec>>
       ELSE /\ out' = Msg("not found symbol")
            /\ last' = Last("sh_write_sym", coms, -1, FALSE)
            /\ UNCHANGED <<breakpoints, pc, regs, mem, tstate, orig, exec>>

\* a cont arm without its break: the loop prompts again
sh_contNoBreak(coms) ==
    /\ tstate' = "run"
    /\ exec' = Resumed("cont")
    /\ out' = Msg("continue...")
    /\ last' = Last("cont", coms, -1, TRUE)
    /\ UNCHANGED <<breakpoints, pc, regs, mem, orig>>

\* the arm "c": Debugger::cont, then break
sh_cont(coms) ==
    /\ tstate' = "run"
    /\ exec' = Resumed("cont")
    /\ pc' = "wait"
    /\ out' = Msg("continue...")
    /\ last' = Last("cont", coms, -1, TRUE)
    /\ UNCHANGED <<breakpoints, regs, mem, orig>>

\* the arm "s": Debugger::step, then break
sh_step(coms) ==
    /\ tstate' = "step"
    /\ exec' = Resumed("step")
    /\ pc' = "wait"
    /\ out' = Msg("")
    /\ last' = Last("step", coms, -1, TRUE)
    /\ UNCHANGED <<breakpoints, regs, mem, orig>>

\* the arms that only print: help, show_break, Elf64::show_debug
sh_show(coms) ==
    /\ out' = Msg(handlerOf(coms))
    /\ last' = Last(handlerOf(coms), coms, -1, TRUE)
    /\ UNCHANGED <<breakpoints, pc, regs, mem, tstate, orig, exec>>

\* Debugger::show_regs: read_regs, then one line for a register, its name and value
show_regs(coms) ==
    /\ out' = [msg |-> "show_regs",
               val |-> [i \in 1..Len(RegOrder) |-> <<RegOrder[i], regs[RegOrder[i]]>>]]
    /\ last' = Last("show_regs", coms, -1, TRUE)
    /\ UNCHANGED <<breakpoints, pc, regs, mem, tstate, orig, exec>>

\* registers written without the read_regs before: the others are 0
regs_withOnly(rgs, reg, val) == [r \in DOMAIN rgs |-> IF r = reg THEN val ELSE 0]

\* the registers set_regs writes back: those read, with the one named replaced
regs_with(rgs, reg, val) == [rgs EXCEPT ![reg] = val]

\* Debugger::set_regs
set_regs(coms) ==
    LET reg == coms[3]
        val == ParseHex(coms[4])
    IN IF val < 0
       THEN /\ out' = Msg("parse error")
            /\ last' = Last("set_regs", coms, -1, FALSE)
            /\ UNCHANGED <<breakpoints, pc, regs, mem, tstate, orig, exec>>
       ELSE IF reg \in RegNames
       THEN /\ regs' = regs_with(regs, reg, val)
            /\ out' = Msg("")
            /\ last' = Last("set_regs", coms, -1, TRUE)
            /\ UNCHANGED <<breakpoints, pc, mem, tstate, orig, exec>>
       ELSE /\ out' = Msg("not register")
            /\ last' = Last("set_regs", coms, -1, FALSE)
            /\ UNCHANGED <<breakpoints, pc, regs, mem, tstate, orig, exec>>

\* Debugger::sh_quit: kill, then exit(0)
sh_quit(coms) ==
    /\ tstate' = "dead"
    /\ pc' = "exit"
    /\ out' = Msg("")
    /\ last' = Last("sh_quit", coms, -1, TRUE)
    /\ UNCHANGED <<breakpoints, regs, mem, orig, exec>>

\* the arm _
sh_not_support(coms) ==
    /\ out' = Msg("not support command")
    /\ last' = Last("not support command", coms, -1, FALSE)
    /\ UNCHANGED <<breakpoints, pc, regs, mem, tstate, orig, exec>>

ShEmpty == ShellCmd("empty", sh_empty)

ShBreakpoint == ShellCmd("sh_breakpoint", sh_breakpoint)

ShReleaseBreak == ShellCmd("sh_release_break", sh_release_break)

ShReadSym == ShellCmd("sh_read_sym", sh_read_sym)

ShWriteSym == ShellCmd("sh_write_sym", sh_write_sym)

ShCont == ShellCmd("cont", sh_cont)

ShStep == ShellCmd("step", sh_step)

ShHelp == ShellCmd("help", sh_show)

ShShowBreak == ShellCmd("show_break", sh_show)

ShShowRegs == ShellCmd("show_regs", show_regs)

ShShowDebug == ShellCmd("show_debug", sh_show)

ShSetRegs == ShellCmd("set_regs", set_regs)

ShQuit == ShellCmd("sh_quit", sh_quit)

ShNotSupport == ShellCmd("not support command", sh_not_support)

----------------------------------------------------------------------------
\* The debugger with its tracee

Init ==
    /\ breakpoints = <<>>
    /\ entry = 0
    /\ sym_tbl = <<>>
    /\ first_sig = TRUE
    /\ pc = "wait"
    /\ hit = -1
    /\ regs = [r \in RegNames |-> IF r = "rip" THEN LoadBase ELSE 0]
    /\ mem = Image
    /\ tstate = "run"
    /\ pending = FALSE
    /\ tsig = "SIGTRAP"
    /\ out = Msg("start start_dbg")
    /\ last = Last("new", <<>>, -1, FALSE)
    /\ regTime = <<>>
    /\ clock = 0
    /\ orig = [a \in ImgAddrs |-> <<>>]
    /\ exec = Resumed("fork")
    /\ badOp = FALSE
    /\ UnitIdle

Next ==
    \/ WaitExited \/ WaitStopped \/ WaitSignaled \/ WaitOther \/ WaitPtraceStop
    \/ WaitFailed \/ RecoverWait \/ RecoverOther
    \/ TraceeExecve \/ TraceeInt3 \/ TraceeInstr \/ TraceeSignalStop \/ TraceeEnds
    \/ ShEmpty \/ ShBreakpoint \/ ShReleaseBreak \/ ShReadSym \/ ShWriteSym
    \/ ShCont \/ ShStep \/ ShHelp \/ ShShowBreak \/ ShShowRegs \/ ShShowDebug
    \/ ShSetRegs \/ ShQuit \/ ShNotSupport

Spec == Init /\ [][Next]_vars

----------------------------------------------------------------------------
\* BreakpointList on its own: any sequence of register and delete calls

\* number of register calls that add an entry
MaxReg == 4

\* the addresses handed to register: absolute ones and relative ones that meet them
BLAddrs ==
    {AdrFromAbs(1), AdrFromAbs(2), AdrFromRel(1, 1), AdrFromRel(1, 2), AdrFromAbs(3)}

BLFinals == {get(a) : a \in BLAddrs}

BLSyms == {"main", "f"}

\* the indices handed to delete
BLIndices == 0..MaxReg

InitBL ==
    /\ breakpoints = <<>>
    /\ entry = 0
    /\ sym_tbl = <<>>
    /\ first_sig = TRUE
    /\ pc = "BreakpointList"
    /\ hit = -1
    /\ regs = [r \in RegNames |-> 0]
    /\ mem = Image
    /\ tstate = "run"
    /\ pending = FALSE
    /\ tsig = "SIGTRAP"
    /\ out = Msg("")
    /\ last = Last("new", <<>>, -1, FALSE)
    /\ regTime = [a \in BLFinals |-> 0]
    /\ clock = 0
    /\ orig = [a \in ImgAddrs |-> <<>>]
    /\ exec = Idle
    /\ badOp = FALSE
    /\ UnitIdle

\* a call of register; last keeps the final address and the value returned
BLRegister ==
    /\ UNCHANGED unitVars
    /\ clock < MaxReg
    /\ \E sym \in BLSyms, bp \in BLAddrs :
         LET r == register(breakpoints, sym, bp, ToWord(get(bp)))
             new == \A i \in 1..Len(breakpoints) : get(breakpoints[i].addr) # get(bp)
         IN /\ breakpoints' = r.bps
            /\ last' = Last("register", <<sym>>, get(bp), r.ret)
            /\ clock' = IF new THEN clock + 1 ELSE clock
            /\ regTime' = IF new THEN [regTime EXCEPT ![get(bp)] = clock + 1] ELSE regTime
    /\ UNCHANGED <<entry, sym_tbl, first_sig, pc, hit, regs, mem, tstate, pending, tsig, out,
                   orig, exec, badOp>>

\* a call of delete; last keeps the index and whether an entry was returned
BLDelete ==
    /\ UNCHANGED unitVars
    /\ \E index \in BLIndices :
         LET d == delete(breakpoints, index)
         IN /\ breakpoints' = d.bps
            /\ last' = [Last("delete", <<>>, index, IsSome(d.ret))
                          EXCEPT !.coms = IF IsSome(d.ret) THEN <<Unwrap(d.ret).sym>> ELSE <<>>]
    /\ UNCHANGED <<entry, sym_tbl, first_sig, pc, hit, regs, mem, tstate, pending, tsig, out,
                   regTime, clock, orig, exec, badOp>>

NextBL == BLRegister \/ BLDelete

SpecBL == InitBL /\ [][NextBL]_vars

----------------------------------------------------------------------------
\* The parts that run apart from the debugger's loop start from a debugger that
\* was constructed and is not running

DbgUnused ==
    /\ breakpoints = <<>>
    /\ entry = 0
    /\ sym_tbl = <<>>
    /\ first_sig = TRUE
    /\ pc = "unit"
    /\ hit = -1
    /\ regs = [r \in RegNames |-> 0]
    /\ mem = Image
    /\ tstate = "run"
    /\ pending = FALSE
    /\ tsig = "SIGTRAP"
    /\ out = Msg("")
    /\ last = Last("new", <<>>, -1, FALSE)
    /\ regTime = <<>>
    /\ clock = 0
    /\ orig = [a \in ImgAddrs |-> <<>>]
    /\ exec = Idle
    /\ badOp = FALSE

----------------------------------------------------------------------------
\* ULEB128::decode (src/src/elf/leb128.rs). A u64 is the set of the positions of
\* its one bits, a byte is a number below 256.

\* the bit positions of a u64
U64 == 0..63

\* the one bits of a byte
BitsOfByte(b) == {i \in 0..7 : (b \div (2 ^ i)) % 2 = 1}

\* b_val & 0x7F
Low7(b_val) == BitsOfByte(b_val) \ {7}

\* 0 == b_val & 0x80
MsbClear(b_val) == 7 \notin BitsOfByte(b_val)

\* x << s on u64 where it does not panic: the amount is taken modulo 64 and the
\* bits moved beyond bit 63 are lost
wrapping_shl(x, s) == {i + (s % 64) : i \in x} \cap U64

\* a shift amount that advances by a whole byte
leb_step8(s) == s + 8

\* s += 7
leb_step(s) == s + 7

\* the loop of ULEB128::decode with the reader's bytes r, val, size and s; checks
\* tells whether x << s panics when s is 64 or more
RECURSIVE decode_loop(_, _, _, _, _)
decode_loop(r, val, size, s, checks) ==
    IF r = <<>>
    THEN \* read_exact fails
         [tag |-> "Err", size |-> 0, val |-> {}, rest |-> <<>>]
    ELSE LET b_val == Head(r) IN
         IF checks /\ s >= 64
         THEN [tag |-> "panic", size |-> 0, val |-> {}, rest |-> Tail(r)]
         ELSE LET v == val \cup wrapping_shl(Low7(b_val), s) IN
              IF MsbClear(b_val)
              THEN [tag |-> "Ok", size |-> size + 1, val |-> v, rest |-> Tail(r)]
              ELSE decode_loop(Tail(r), v, size + 1, leb_step(s), checks)

\* ULEB128::decode(reader): Ok((size, val)), Err(DecodeError) or a panic, and the
\* bytes the reader has left
decode(r, checks) == decode_loop(r, {}, 0, 0, checks)

\* the u64 of a number below 2^31
U64Of(n) == {i \in 0..30 : (n \div (2 ^ i)) % 2 = 1}

\* the byte of a set of bit positions below 8
ByteOfBits(B) ==
    (IF 0 \in B THEN 1 ELSE 0) + (IF 1 \in B THEN 2 ELSE 0) + (IF 2 \in B THEN 4 ELSE 0)
    + (IF 3 \in B THEN 8 ELSE 0) + (IF 4 \in B THEN 16 ELSE 0) + (IF 5 \in B THEN 32 ELSE 0)
    + (IF 6 \in B THEN 64 ELSE 0) + (IF 7 \in B THEN 128 ELSE 0)

\* the k-th group of seven bits of v, k from 0
Septet(v, k) == {i - 7 * k : i \in {j \in v : 7 * k <= j /\ j < 7 * k + 7}}

\* the number of groups up to the highest one bit, one for zero
NSeptets(v) == IF v = {} THEN 1 ELSE ((CHOOSE m \in v : \A j \in v : j <= m) \div 7) + 1

\* the canonical ULEB128 encoding of v: its groups from the lowest, all but the
\* last with bit 0x80 set
Encode(v) ==
    [k \in 1..NSeptets(v) |->
        ByteOfBits(Septet(v, k - 1)) + (IF k < NSeptets(v) THEN 128 ELSE 0)]

\* the encodings of the values of vs, one after the other
RECURSIVE EncodeAll(_)
EncodeAll(vs) == IF vs = <<>> THEN <<>> ELSE Encode(Head(vs)) \o EncodeAll(Tail(vs))

\* number of values encoded into one reader
MaxVals == 3

\* number of bytes with bit 0x80 set in a reader that ends without a last byte
MaxCont == 12

\* the values encoded: 0, 1, the ends of one byte, the values of the tests, a
\* value above 32 bits, the top bit, and the largest u64
LEBVals ==
    { U64Of(0), U64Of(1), U64Of(127), U64Of(128), U64Of(624485), U64Of(543210),
      {35}, {63}, {0, 63}, U64 }

\* the bytes with bit 0x80 set that fill a reader
ContBytes == {128, 255}

\* readers that run out before a byte with bit 0x80 clear, alone and after a
\* whole encoding, and such runs closed by a last byte
LEBRaw ==
    LET runs == {[i \in 1..n |-> b] : n \in 0..MaxCont, b \in ContBytes} IN
    runs \cup {Encode(v) \o r : v \in {U64Of(1), U64}, r \in runs}
         \cup {r \o <<1>> : r \in runs}

\* the readers decode is called on
LEBInputs ==
    {[vals |-> vs, bytes |-> EncodeAll(vs)] :
        vs \in UNION {[1..n -> LEBVals] : n \in 1..MaxVals}}
    \cup {[vals |-> <<>>, bytes |-> r] : r \in LEBRaw}

\* no Elf64 object is in use
ElfIdle == elf_file = <<>> /\ sec_header = <<>> /\ elf_ret = <<>> /\ found = <<>>

\* no address object is in use
AdrIdle == adr = <<>> /\ adr_in = <<>> /\ got = <<>>

\* no decode is in use
LebIdle == reader = <<>> /\ decoded = <<>> /\ leb_in = <<>> /\ overflow_checks = FALSE

\* no DebugInfoSection is in use
DwIdle == dw_file = <<>> /\ dw_read = 0 /\ dw_cus = <<>> /\ dw_ret = <<>>

\* no tracer is in use
TrIdle == sysgood = FALSE /\ reqs = <<>> /\ events = 0

InitLEB ==
    /\ DbgUnused
    /\ AdrIdle /\ ElfIdle /\ TrIdle /\ DwIdle
    /\ overflow_checks \in BOOLEAN
    /\ leb_in \in LEBInputs
    /\ reader = leb_in.bytes
    /\ decoded = <<>>

\* one call of decode on the reader; after a panic there is no further call
LEBDecode ==
    /\ Len(decoded) <= MaxVals
    /\ IF decoded = <<>> THEN TRUE ELSE decoded[Len(decoded)].tag # "panic"
    /\ LET r == decode(reader, overflow_checks)
       IN /\ reader' = r.rest
          /\ decoded' = Append(decoded, [tag |-> r.tag, size |-> r.size, val |-> r.val])
    /\ UNCHANGED <<dbgVars, notLeb, leb_in, overflow_checks>>

NextLEB == LEBDecode

SpecLEB == InitLEB /\ [][NextLEB]_vars

----------------------------------------------------------------------------
\* The address objects of src/src/address.rs on their own: a constructor, then
\* calls of get

\* the largest base, offset and absolute address handed to a constructor
AdrMax == 12

\* number of get calls on one object
MaxGets == 3

InitAdr ==
    /\ DbgUnused
    /\ LebIdle /\ ElfIdle /\ TrIdle /\ DwIdle
    /\ \/ \E x \in 0..AdrMax :
            /\ adr_in = <<"abs", x>>
            /\ adr = AdrFromAbs(x)
       \/ \E b \in 0..AdrMax, o \in 0..AdrMax :
            /\ adr_in = <<"rel", b, o>>
            /\ adr = AdrFromRel(b, o)
    /\ got = <<>>

\* a call of get(&self)
AdrGet ==
    /\ Len(got) < MaxGets
    /\ got' = Append(got, get(adr))
    /\ UNCHANGED <<dbgVars, notAdr, adr, adr_in>>

NextAdr == AdrGet

SpecAdr == InitAdr /\ [][NextAdr]_vars

----------------------------------------------------------------------------
\* Elf64 on its own: load on a file, then symbol searches

\* the sections a file may have beside the null section and .text, in the order a
\* linker writes them
SecKinds ==
    << Sec(3, ".dynstr"), Sec(2, ".symtab.bak"), Sec(2, ".symtab"), Sec(3, ".strtab"),
       Sec(1, ".debug_info"), Sec(1, ".debug_abbrev"), Sec(1, ".debug_str"),
       Sec(1, ".debug_line"), Sec(3, ".shstrtab") >>

SecNames == {SecKinds[i].name : i \in 1..Len(SecKinds)}

Reverse(q) == [i \in 1..Len(q) |-> q[Len(q) + 1 - i]]

\* the section-header tables: the null section, .text, and any of the sections in
\* the linker's order or in the opposite order
SecTables ==
    LET picks == {SelectSeq(SecKinds, LAMBDA k : k.name \in S) : S \in SUBSET SecNames}
    IN {<<Sec(0, ""), Sec(1, ".text")>> \o q : q \in picks \cup {Reverse(x) : x \in picks}}

\* the number of the section .shstrtab of a table, 0 if it has none
ShStrNo(secs) ==
    IF \E i \in 1..Len(secs) : secs[i].name = ".shstrtab"
    THEN (CHOOSE i \in 1..Len(secs) : secs[i].name = ".shstrtab") - 1
    ELSE 0

\* the files: e_shstrndx is the number of .shstrtab or that of .text, and
\* DebugInfoSection::load succeeds or fails on the debug sections
ElfFiles ==
    {[secs |-> t, e_shstrndx |-> n, parse |-> r] :
        t \in SecTables, n \in 0..1, r \in {"Ok", "Err"}}

\* the files as Elf64::new finds them
ElfInputs ==
    {[f EXCEPT !.e_shstrndx = IF f.e_shstrndx = 0 THEN ShStrNo(f.secs) ELSE 1] :
        f \in ElfFiles}

\* the names asked for
ElfQueries == {"main", "foo()", "_Z3foov", "far", "g_var", "puts", "nosuch", ""}

InitElf ==
    /\ DbgUnused
    /\ LebIdle /\ AdrIdle /\ TrIdle /\ DwIdle
    /\ elf_file \in ElfInputs
    /\ sec_header = <<>>
    /\ elf_ret = <<>>
    /\ found = <<>>

\* Elf64::load
ElfLoad ==
    /\ elf_ret = <<>>
    /\ LET r == Elf64Load(elf_file)
       IN /\ sec_header' = r.sec_header
          /\ sym_tbl' = r.sym_tbl
          /\ elf_ret' = [res |-> r.res, shstr |-> r.shstr, strtab |-> r.strtab,
                         symtab |-> r.symtab]
    /\ UNCHANGED <<dbgNoSym, notElf, elf_file, found>>

\* Elf64::search_func_sym on a loaded object
ElfSearchFunc ==
    /\ elf_ret # <<>>
    /\ IF elf_ret = <<>> THEN FALSE ELSE elf_ret.res = "Ok"
    /\ \E q \in ElfQueries :
         found' = [kind |-> "Func", name |-> q, ret |-> search_func_sym(sym_tbl, q)]
    /\ UNCHANGED <<dbgVars, notElf, elf_file, sec_header, elf_ret>>

\* Elf64::search_var_sym on a loaded object
ElfSearchVar ==
    /\ elf_ret # <<>>
    /\ IF elf_ret = <<>> THEN FALSE ELSE elf_ret.res = "Ok"
    /\ \E q \in ElfQueries :
         found' = [kind |-> "Object", name |-> q, ret |-> search_var_sym(sym_tbl, q)]
    /\ UNCHANGED <<dbgVars, notElf, elf_file, sec_header, elf_ret>>

NextElf == ElfLoad \/ ElfSearchFunc \/ ElfSearchVar

SpecElf == InitElf /\ [][NextElf]_vars

----------------------------------------------------------------------------
\* The shell's register commands on their own: set regs for every name of the
\* list and info regs, at a tracee that stays stopped

\* number of registers that are written
MaxSets == 2

\* the lines: every register with a value, a value that is no number, a name that
\* is no register, and info regs
RegLines ==
    {<<"set", "regs", r, "0x11">> : r \in RegNames}
    \cup { <<"set", "regs", "rax", "0xdead">>, <<"set", "regs", "rip", "zz">>,
           <<"set", "regs", "bogus", "0x11">>, <<"info", "regs">> }

\* the shell at the tracee's first stop, the file loaded
InitRegs ==
    /\ breakpoints = <<>>
    /\ entry = LoadBase
    /\ sym_tbl = SymTblOfFile
    /\ first_sig = FALSE
    /\ pc = "shell"
    /\ hit = -1
    /\ regs = [r \in RegNames |-> 0]
    /\ mem = Image
    /\ tstate = "stop"
    /\ pending = FALSE
    /\ tsig = "SIGTRAP"
    /\ out = Msg("")
    /\ last = Last("stopped_handler", <<>>, -1, FALSE)
    /\ regTime = <<>>
    /\ clock = 0
    /\ orig = [a \in ImgAddrs |-> <<>>]
    /\ exec = Idle
    /\ badOp = FALSE
    /\ UnitIdle

\* a turn of the shell for a line of the handler h out of RegLines
RegsCmd(h, Body(_)) ==
    /\ UNCHANGED unitVars
    /\ pc = "shell" /\ TraceeStopped
    /\ \E coms \in RegLines :
         /\ handlerOf(coms) = h
         /\ Body(coms)
    /\ UNCHANGED <<entry, sym_tbl, first_sig, hit, pending, tsig, regTime, clock, badOp>>

\* set regs REG HEX, while fewer than MaxSets registers have been written
RegsSet ==
    /\ Cardinality({r \in RegNames : regs[r] # 0}) < MaxSets
    /\ RegsCmd("set_regs", set_regs)

\* info regs
RegsShow == RegsCmd("show_regs", show_regs)

NextRegs == RegsSet \/ RegsShow

SpecRegs == InitRegs /\ [][NextRegs]_vars

----------------------------------------------------------------------------
\* The syscall tracer (src/src/stracer.rs): Tracer::start on the forked tracee.
\* pc, tstate, pending, tsig, regs, out and last are the tracer's loop, the tracee
\* and the last wait status, as they are for the debugger.

\* number of state changes of the tracee
MaxEvents == 4

\* Tracer::to_syscall, by the numbers of libc for x86_64
to_syscall(no) ==
    CASE no = 0 -> "read"
      [] no = 1 -> "write"
      [] no = 2 -> "open"
      [] no = 3 -> "close"
      [] no = 4 -> "stat"
      [] no = 5 -> "fstat"
      [] no = 9 -> "mmap"
      [] no = 11 -> "munmap"
      [] no = 12 -> "brk"
      [] no = 17 -> "pread"
      [] no = 18 -> "pwrite"
      [] no = 19 -> "readv"
      [] no = 20 -> "writev"
      [] no = 21 -> "access"
      [] no = 295 -> "preadv"
      [] no = 296 -> "pwritev"
      [] no = 10 -> "mprotect"
      [] no = 158 -> "arch_prctl"
      [] no = 60 -> "exit"
      [] no = 231 -> "exit_group"
      [] no = 257 -> "openat"
      [] no = 230 -> "clock_nanosleep"
      [] no = 35 -> "nanosleep"
      [] OTHER -> "unknown system call"

\* the syscalls the tracee makes: write, exit, exit_group and one without a name
SysNos == {1, 60, 231, 400}

\* the signals that stop the tracee: the SIGTRAP of execve and a signal sent to it
StopSigs == {"SIGTRAP", "SIGUSR1"}

\* the stop signal of a syscall stop under PTRACE_O_TRACESYSGOOD
SysGoodSig == "SIGTRAP|0x80"

\* what every action of the tracer and its tracee leaves alone
trFrame == <<breakpoints, entry, sym_tbl, first_sig, hit, mem, regTime, clock, orig,
             exec, badOp>>

\* Tracer::start is entered: the child runs towards its execve
InitTracer ==
    /\ breakpoints = <<>>
    /\ entry = 0
    /\ sym_tbl = <<>>
    /\ first_sig = TRUE
    /\ pc = "wait"
    /\ hit = -1
    /\ regs = [r \in RegNames |-> 0]
    /\ mem = Image
    /\ tstate = "run"
    /\ pending = FALSE
    /\ tsig = "SIGTRAP"
    /\ out = Msg("start stracer")
    /\ last = Last("new", <<>>, -1, FALSE)
    /\ regTime = <<>>
    /\ clock = 0
    /\ orig = [a \in ImgAddrs |-> <<>>]
    /\ exec = Idle
    /\ badOp = FALSE
    /\ LebIdle /\ AdrIdle /\ ElfIdle /\ TrIdle /\ DwIdle

\* the running tracee enters or leaves a syscall: a syscall stop once it was
\* resumed by PTRACE_SYSCALL, reported with SIGTRAP|0x80 under TRACESYSGOOD
TrTraceeSyscall ==
    /\ pc = "wait" /\ tstate = "run" /\ events < MaxEvents
    /\ \E i \in 1..Len(reqs) : reqs[i] = "syscall"
    /\ \E no \in SysNos : regs' = [regs EXCEPT !["orig_rax"] = no]
    /\ tstate' = "stop"
    /\ pending' = TRUE
    /\ tsig' = IF sysgood THEN SysGoodSig ELSE "SIGTRAP"
    /\ events' = events + 1
    /\ UNCHANGED <<pc, out, last, sysgood, reqs, trFrame, notTr>>

\* the running tracee stops for a signal: the SIGTRAP of its execve, or a signal
\* sent to it
TrTraceeSignalStop ==
    /\ pc = "wait" /\ tstate = "run" /\ events < MaxEvents
    /\ \E sig \in StopSigs :
         /\ (sig = "SIGTRAP") = (events = 0)
         /\ tsig' = sig
    /\ tstate' = "stop"
    /\ pending' = TRUE
    /\ events' = events + 1
    /\ UNCHANGED <<pc, regs, out, last, sysgood, reqs, trFrame, notTr>>

\* the running tracee exits
TrTraceeExits ==
    /\ pc = "wait" /\ tstate = "run" /\ events < MaxEvents
    /\ tstate' = "exit"
    /\ pending' = TRUE
    /\ events' = events + 1
    /\ UNCHANGED <<pc, regs, tsig, out, last, sysgood, reqs, trFrame, notTr>>

\* the running tracee is killed by SIGKILL
TrTraceeKilled ==
    /\ pc = "wait" /\ tstate = "run" /\ events < MaxEvents
    /\ tstate' = "sig"
    /\ tsig' = "SIGKILL"
    /\ pending' = TRUE
    /\ events' = events + 1
    /\ UNCHANGED <<pc, regs, out, last, sysgood, reqs, trFrame, notTr>>

\* Tracer::start, WaitStatus::Exited: one line, break
TrExited ==
    /\ pc = "wait" /\ pending /\ tstate = "exit"
    /\ pending' = FALSE
    /\ tstate' = "dead"
    /\ reqs' = <<"println">>
    /\ out' = Msg("[trace_syscall] exit child process")
    /\ last' = Last("Exited", <<>>, -1, TRUE)
    /\ pc' = "done"
    /\ UNCHANGED <<regs, tsig, sysgood, events, trFrame, notTr>>

\* Tracer::analysis_syscall: getregs and one line with the name of orig_rax
analysis_syscall(rgs) ==
    [reqs |-> <<"getregs", "println">>,
     out |-> [msg |-> to_syscall(rgs["orig_rax"]),
              val |-> <<rgs["rip"], rgs["rsp"], rgs["rax"], rgs["rcx"]>>]]

\* Tracer::start, the arm of WaitStatus::PtraceSyscall: analysis_syscall, then
\* ptrace::syscall(pid, None)
TrPtraceSyscallReqs(rgs) == analysis_syscall(rgs).reqs \o <<"syscall">>

\* Tracer::start, WaitStatus::PtraceSyscall
TrPtraceSyscall ==
    /\ pc = "wait" /\ pending /\ tstate = "stop" /\ tsig = SysGoodSig
    /\ pending' = FALSE
    /\ reqs' = TrPtraceSyscallReqs(regs)
    /\ out' = analysis_syscall(regs).out
    /\ last' = Last("PtraceSyscall", <<>>, -1, TRUE)
    /\ tstate' = "run"
    /\ UNCHANGED <<pc, regs, tsig, sysgood, events, trFrame, notTr>>

\* Tracer::start, WaitStatus::Stopped: one line, setoptions(PTRACE_O_TRACESYSGOOD),
\* ptrace::syscall(pid, None)
TrStopped ==
    /\ pc = "wait" /\ pending /\ tstate = "stop" /\ tsig # SysGoodSig
    /\ pending' = FALSE
    /\ reqs' = <<"println", "setoptions", "syscall">>
    /\ sysgood' = TRUE
    /\ out' = Msg("[trace_syscall] stopped")
    /\ last' = Last("Stopped", <<tsig>>, -1, TRUE)
    /\ tstate' = "run"
    /\ UNCHANGED <<pc, regs, tsig, events, trFrame, notTr>>

\* Tracer::start, WaitStatus::Signaled: one line, and the loop goes on
TrSignaled ==
    /\ pc = "wait" /\ pending /\ tstate = "sig"
    /\ pending' = FALSE
    /\ tstate' = "dead"
    /\ reqs' = <<"println">>
    /\ out' = Msg("[trace_syscall] recv signal")
    /\ last' = Last("Signaled", <<tsig>>, -1, TRUE)
    /\ UNCHANGED <<pc, regs, tsig, sysgood, events, trFrame, notTr>>

\* Tracer::start, waitpid fails (ECHILD once the tracee is reaped): expect panics
TrWaitFailed ==
    /\ pc = "wait" /\ tstate = "dead"
    /\ pc' = "panic"
    /\ reqs' = <<>>
    /\ out' = Msg("wait child process failed")
    /\ last' = Last("panic", <<>>, -1, FALSE)
    /\ UNCHANGED <<regs, tstate, pending, tsig, sysgood, events, trFrame, notTr>>

NextTracer ==
    \/ TrTraceeSyscall \/ TrTraceeSignalStop \/ TrTraceeExits \/ TrTraceeKilled
    \/ TrExited \/ TrPtraceSyscall \/ TrStopped \/ TrSignaled \/ TrWaitFailed

SpecTracer == InitTracer /\ [][NextTracer]_vars

----------------------------------------------------------------------------
\* .debug_abbrev and .debug_info (src/src/elf/dwarf.rs): DebugAbbRevSection::load,
\* DebugInfoSection::load and parse. The reader is the file, a sequence of bytes,
\* with a position counted from 0. A text is the sequence of its bytes.

\* the number of a u64 below 2^31; -1 stands for a larger one, which no input holds
NatOf(v) ==
    IF \E i \in v : i > 30 THEN -1
    ELSE LET RECURSIVE Sum(_)
             Sum(S) == IF S = {} THEN 0
                       ELSE LET i == CHOOSE j \in S : TRUE IN 2 ^ i + Sum(S \ {i})
         IN Sum(v)

\* from_le_bytes below 2^31; -1 stands for a larger value
LeNat(bytes) ==
    IF \E i \in 1..Len(bytes) : bytes[i] # 0 /\ (i > 4 \/ (i = 4 /\ bytes[i] >= 128))
    THEN -1
    ELSE LET RECURSIVE Sum(_)
             Sum(i) == IF i > Len(bytes) THEN 0 ELSE bytes[i] + 256 * Sum(i + 1)
         IN Sum(1)

\* to_string() of a number: its decimal digits as bytes
RECURSIVE Decimal(_)
Decimal(n) ==
    IF n < 0 THEN <<>>
    ELSE IF n < 10 THEN <<48 + n>>
    ELSE Decimal(n \div 10) \o <<48 + (n % 10)>>

\* a value text read from the file, and the two texts parse writes itself
Text(t) == [lit |-> "", text |-> t]

Literal(l) == [lit |-> l, text |-> <<>>]

\* the element of a set of one element: The({e(x) : x \in {v}}) is e(v), with v
\* worked out once
The(S) == CHOOSE x \in S : TRUE

\* reader.read_exact of n bytes at pos
read_exact(f, pos, n) ==
    IF pos >= 0 /\ n >= 0 /\ pos + n <= Len(f)
    THEN [ok |-> TRUE, bytes |-> SubSeq(f, pos + 1, pos + n), pos |-> pos + n]
    ELSE [ok |-> FALSE, bytes |-> <<>>, pos |-> pos]

\* ULEB128::decode(reader) at pos: the number read and the bytes it took
decode_at(f, pos, checks) ==
    The({[tag |-> r.tag, size |-> r.size, val |-> NatOf(r.val), pos |-> pos + r.size] :
         r \in {IF pos >= 0 /\ pos <= Len(f)
                THEN decode(SubSeq(f, pos + 1, Len(f)), checks)
                ELSE decode(<<>>, checks)}})

\* DwInfo::to_dw_at
to_dw_at(at) ==
    CASE at = 0 -> "End"
      [] at = 1 -> "Sibling"
      [] at = 2 -> "Location"
      [] at = 3 -> "Name"
      [] at = 9 -> "Ordering"
      [] at = 10 -> "SubscrData"
      [] at = 11 -> "ByteSize"
      [] at = 12 -> "BitOffset"
      [] at = 13 -> "BitSize"
      [] at = 15 -> "ElementList"
      [] at = 16 -> "StmtList"
      [] at = 17 -> "LowPc"
      [] at = 18 -> "HighPc"
      [] at = 19 -> "Language"
      [] at = 20 -> "Member"
      [] at = 21 -> "Discr"
      [] at = 22 -> "DiscrValue"
      [] at = 23 -> "Visibility"
      [] at = 24 -> "Import"
      [] at = 25 -> "StringLength"
      [] at = 26 -> "CommonReference"
      [] at = 27 -> "CompDir"
      [] at = 28 -> "ConstValue"
      [] at = 29 -> "ContainingType"
      [] at = 30 -> "DefaultValue"
      [] at = 32 -> "Inline"
      [] at = 33 -> "IsOptional"
      [] at = 34 -> "LowerBound"
      [] at = 37 -> "Producer"
      [] at = 39 -> "Prototyped"
      [] at = 42 -> "ReturnAddr"
      [] at = 44 -> "StartScope"
      [] at = 46 -> "BitStride"
      [] at = 47 -> "UpperBound"
      [] at = 49 -> "AbstractOrigin"
      [] at = 50 -> "Accessibility"
      [] at = 51 -> "AddressClass"
      [] at = 52 -> "Artificial"
      [] at = 53 -> "BaseTypes"
      [] at = 54 -> "CallingConvention"
      [] at = 55 -> "Count"
      [] at = 56 -> "DataMemberLocation"
      [] at = 57 -> "DeclColumn"
      [] at = 58 -> "DeclFile"
      [] at = 59 -> "DeclLine"
      [] at = 60 -> "Declaration"
      [] at = 61 -> "DiscrList"
      [] at = 62 -> "Encoding"
      [] at = 63 -> "External"
      [] at = 64 -> "FrameBase"
      [] at = 65 -> "Friend"
      [] at = 66 -> "IdentifierCase"
      [] at = 67 -> "MacroInfo"
      [] at = 68 -> "NamelistItems"
      [] at = 69 -> "Priority"
      [] at = 70 -> "Segment"
      [] at = 71 -> "Specification"
      [] at = 72 -> "StaticLink"
      [] at = 73 -> "Type"
      [] at = 74 -> "UseLocation"
      [] at = 75 -> "VariableParameter"
      [] at = 76 -> "Virtuality"
      [] at = 77 -> "VtableElemLocation"
      [] at = 78 -> "Allocated"
      [] at = 79 -> "Associated"
      [] at = 80 -> "DataLocation"
      [] at = 81 -> "ByteStride"
      [] at = 82 -> "EntryPc"
      [] at = 83 -> "UseUTF8"
      [] at = 84 -> "Extension"
      [] at = 85 -> "Ranges"
      [] at = 86 -> "Trampoline"
      [] at = 87 -> "CallColumn"
      [] at = 88 -> "CallFile"
      [] at = 89 -> "CallLine"
      [] at = 90 -> "Description"
      [] at = 91 -> "BinaryScale"
      [] at = 92 -> "DecimalScale"
      [] at = 93 -> "Small"
      [] at = 94 -> "DecimalSign"
      [] at = 95 -> "DigitCount"
      [] at = 96 -> "PictureString"
      [] at = 97 -> "Mutable"
      [] at = 98 -> "ThreadsScaled"
      [] at = 99 -> "Explicit"
      [] at = 100 -> "ObjectPointer"
      [] at = 101 -> "Endianity"
      [] at = 102 -> "Elemental"
      [] at = 103 -> "Pure"
      [] at = 104 -> "Recursive"
      [] at = 105 -> "Signature"
      [] at = 106 -> "MainSubprogram"
      [] at = 107 -> "DataBitOffset"
      [] at = 108 -> "ConstExpr"
      [] at = 109 -> "EnumClass"
      [] at = 110 -> "LinkageName"
      [] OTHER -> "Unknown"

\* DwInfo::to_dw_form
to_dw_form(form) ==
    CASE form = 0 -> "End"
      [] form = 1 -> "Addr"
      [] form = 3 -> "Block2"
      [] form = 4 -> "Block4"
      [] form = 5 -> "Data2"
      [] form = 6 -> "Data4"
      [] form = 7 -> "Data8"
      [] form = 8 -> "String"
      [] form = 9 -> "Block"
      [] form = 10 -> "Block1"
      [] form = 11 -> "Data1"
      [] form = 12 -> "Flag"
      [] form = 13 -> "Sdata"
      [] form = 14 -> "Strp"
      [] form = 15 -> "Udata"
      [] form = 16 -> "RefAddr"
      [] form = 17 -> "Ref1"
      [] form = 18 -> "Ref2"
      [] form = 19 -> "Ref4"
      [] form = 20 -> "Ref8"
      [] form = 21 -> "RefUdata"
      [] form = 22 -> "Indirect"
      [] form = 23 -> "SecOffset"
      [] form = 24 -> "Exprloc"
      [] form = 25 -> "FlagPresent"
      [] form = 32 -> "RefSig8"
      [] OTHER -> "Unknown"

\* the loop over the attributes of one record in DebugAbbRevSection::load: pairs of
\* name and form up to and with the pair 0, 0
RECURSIVE abbrev_attrs(_, _, _, _)
abbrev_attrs(f, pos, attrs, checks) ==
    The({The({IF n.tag # "Ok" \/ m.tag # "Ok"
              THEN [tag |-> "panic", attrs |-> attrs, pos |-> pos]
              ELSE IF n.val = 0 /\ m.val = 0
              THEN [tag |-> "Ok", attrs |-> Append(attrs, [name |-> n.val, form |-> m.val]),
                    pos |-> m.pos]
              ELSE abbrev_attrs(f, m.pos, Append(attrs, [name |-> n.val, form |-> m.val]),
                                checks) :
              m \in {decode_at(f, n.pos, checks)}}) :
         n \in {decode_at(f, pos, checks)}})

\* the loop over the records in DebugAbbRevSection::load, up to the number 0
RECURSIVE abbrev_records(_, _, _, _)
abbrev_records(f, pos, abb_rev, checks) ==
    LET record(no, tg, b, a) ==
            [abbrev_no |-> no.val, tag |-> tg.val, has_child |-> b.bytes[1],
             attr_name |-> [i \in 1..Len(a.attrs) |-> a.attrs[i].name],
             attr_form |-> [i \in 1..Len(a.attrs) |-> a.attrs[i].form]]
        attrs(no, tg, b) ==
            The({IF a.tag # "Ok" THEN [tag |-> "panic", abb_rev |-> abb_rev]
                 ELSE abbrev_records(f, a.pos, Append(abb_rev, record(no, tg, b, a)), checks) :
                 a \in {abbrev_attrs(f, b.pos, <<>>, checks)}})
        has_child(no, tg) ==
            The({IF ~b.ok THEN [tag |-> "Err", abb_rev |-> abb_rev] ELSE attrs(no, tg, b) :
                 b \in {read_exact(f, tg.pos, 1)}})
        tag(no) ==
            The({IF tg.tag # "Ok" THEN [tag |-> "panic", abb_rev |-> abb_rev]
                 ELSE has_child(no, tg) :
                 tg \in {decode_at(f, no.pos, checks)}})
    IN The({IF no.tag # "Ok" THEN [tag |-> "panic", abb_rev |-> abb_rev]
            ELSE IF no.val = 0 THEN [tag |-> "Ok", abb_rev |-> abb_rev]
            ELSE tag(no) :
            no \in {decode_at(f, pos, checks)}})

\* DebugAbbRevSection::load: the records from sec_header.offset + abbrev_offset on
abbrev_load(f, sec_offset, abbrev_offset, checks) ==
    abbrev_records(f, IF abbrev_offset < 0 THEN -1 ELSE sec_offset + abbrev_offset, <<>>, checks)

\* DebugAbbRevSection::get_record: the record at the index i, counted from 0
get_record(abb_rev, i) == abb_rev[i + 1]

\* DebugInfoSection::to_string: the bytes of buf from offset up to the first NUL
dw_to_string(buf, offset) ==
    LET rest == IF offset >= 0 /\ offset < Len(buf) THEN SubSeq(buf, offset + 1, Len(buf)) ELSE <<>>
        stop == IF \E i \in 1..Len(rest) : rest[i] = 0
                THEN CHOOSE i \in 1..Len(rest) : rest[i] = 0 /\ \A j \in 1..(i - 1) : rest[j] # 0
                ELSE Len(rest) + 1
    IN SubSeq(rest, 1, stop - 1)

\* the arm of DwFormInfo::String: the bytes pushed up to and with the first NUL
string_bytes(f, pos) ==
    LET rest == IF pos >= 0 /\ pos <= Len(f) THEN SubSeq(f, pos + 1, Len(f)) ELSE <<>> IN
    IF \E i \in 1..Len(rest) : rest[i] = 0
    THEN LET n == CHOOSE i \in 1..Len(rest) : rest[i] = 0 /\ \A j \in 1..(i - 1) : rest[j] # 0
         IN [ok |-> TRUE, st |-> SubSeq(rest, 1, n), st_size |-> n]
    ELSE [ok |-> FALSE, st |-> <<>>, st_size |-> 0]

\* the number of bytes of the forms that are read with one read_exact
FixedSize(form) ==
    CASE form \in {"Data1", "Ref1"} -> 1
      [] form \in {"Data2", "Ref2"} -> 2
      [] form \in {"Strp", "Data4", "SecOffset", "Ref4"} -> 4
      [] form \in {"Addr", "Data8", "Ref8"} -> 8
      [] OTHER -> 0

\* the arms of the match on to_dw_form in parse: the value text and the bytes read,
\* or the panic of the arm
read_kind(f, pos, kind, str_buf, checks) ==
    IF FixedSize(kind) > 0
    THEN LET r == read_exact(f, pos, FixedSize(kind)) IN
         IF ~r.ok THEN [ok |-> FALSE, data |-> Text(<<>>), size |-> 0]
         ELSE [ok |-> TRUE,
               data |-> IF kind = "Strp" THEN Text(dw_to_string(str_buf, LeNat(r.bytes)))
                        ELSE Text(Decimal(LeNat(r.bytes))),
               size |-> FixedSize(kind)]
    ELSE IF kind \in {"Sdata", "Udata"}
    THEN LET d == decode_at(f, pos, checks) IN
         IF d.tag # "Ok" THEN [ok |-> FALSE, data |-> Text(<<>>), size |-> 0]
         ELSE [ok |-> TRUE, data |-> Text(Decimal(d.val)), size |-> d.size]
    ELSE IF kind = "String"
    THEN LET s == string_bytes(f, pos) IN
         IF ~s.ok \/ \E i \in 1..Len(s.st) : s.st[i] >= 128
         THEN [ok |-> FALSE, data |-> Text(<<>>), size |-> 0]
         ELSE [ok |-> TRUE, data |-> Text(s.st), size |-> s.st_size]
    ELSE IF kind = "Exprloc"
    THEN LET d == decode_at(f, pos, checks) IN
         IF d.tag # "Ok" \/ ~read_exact(f, d.pos, d.val).ok
         THEN [ok |-> FALSE, data |-> Text(<<>>), size |-> 0]
         ELSE [ok |-> TRUE, data |-> Text(Decimal(d.val)), size |-> d.size + d.val]
    ELSE IF kind = "FlagPresent"
    THEN [ok |-> TRUE, data |-> Literal("flag is presetn"), size |-> 0]
    ELSE IF kind = "End"
    THEN [ok |-> TRUE, data |-> Literal("value: 0"), size |-> 0]
    ELSE [ok |-> FALSE, data |-> Text(<<>>), size |-> 0]

\* the match on to_dw_form(form) in parse
read_form(f, pos, form, str_buf, checks) ==
    The({read_kind(f, pos, kind, str_buf, checks) : kind \in {to_dw_form(form)}})

\* DebugInfoEntry::new
DebugInfoEntry(n, a, fm, s) == [no |-> n, attr |-> to_dw_at(a), form |-> to_dw_form(fm), data |-> s]

\* the for loop of parse over the pairs of form and name of a record, from the i-th
RECURSIVE parse_attrs(_, _, _, _, _, _, _, _, _)
parse_attrs(f, pos, read_size, record, i, dies, abbrev_no, str_buf, checks) ==
    LET pushed(k, r) ==
            DebugInfoEntry(abbrev_no, record.attr_name[k], record.attr_form[k], r.data)
        turn(at, rs, k, ds) ==
            IF k > Len(record.attr_form) \/ k > Len(record.attr_name)
            THEN [ok |-> TRUE, pos |-> at, read_size |-> rs, dies |-> ds]
            ELSE The({IF ~r.ok THEN [ok |-> FALSE, pos |-> at, read_size |-> rs, dies |-> ds]
                      ELSE parse_attrs(f, at + r.size, rs + r.size, record, k + 1,
                                       Append(ds, pushed(k, r)), abbrev_no, str_buf, checks) :
                      r \in {read_form(f, at, record.attr_form[k], str_buf, checks)}})
    IN The({turn(v[1], v[2], v[3], v[4]) : v \in {<<pos, read_size, i, dies>>}})

\* parse: the record of a DIE's number, abbrev.get_record(abbrev_no - 1); nothing
\* where the index is out of bounds (get_record panics)
parse_record(abb_rev, abbrev_no) ==
    LET index == abbrev_no - 1 IN
    IF index >= 0 /\ index < Len(abb_rev) THEN <<get_record(abb_rev, index)>> ELSE <<>>

\* parse: the test for the end of the unit, cu_h.len == read_size + 7
parse_end(read_size, len) == len = read_size + 7

\* DebugInfoSection::parse: the loop over the DIEs of a unit of length len from pos
\* on; read_size is the number of bytes read
RECURSIVE parse(_, _, _, _, _, _, _, _)
parse(f, pos, read_size, len, abb_rev, dies, str_buf, checks) ==
    LET die(d, rs, record, ds, table) ==
            The({IF ~a.ok THEN [tag |-> "panic", read_size |-> a.read_size, dies |-> a.dies]
                 ELSE parse(f, a.pos, a.read_size, len, table, a.dies, str_buf, checks) :
                 a \in {parse_attrs(f, d.pos, rs, record, 1, ds, d.val, str_buf, checks)}})
        number(d, rs, ds, table) ==
            IF d.tag # "Ok" THEN [tag |-> "panic", read_size |-> rs - d.size, dies |-> ds]
            ELSE IF parse_end(rs, len) THEN [tag |-> "Ok", read_size |-> rs, dies |-> ds]
            ELSE IF d.val = 0 THEN parse(f, d.pos, rs, len, table, ds, str_buf, checks)
            ELSE The({IF record = <<>> THEN [tag |-> "panic", read_size |-> rs, dies |-> ds]
                      ELSE die(d, rs, record[1], ds, table) :
                      record \in {parse_record(table, d.val)}})
        turn(at, before, ds, table) ==
            The({number(d, before + d.size, ds, table) : d \in {decode_at(f, at, checks)}})
    IN The({turn(v[1], v[2], v[3], v[4]) : v \in {<<pos, read_size, dies, abb_rev>>}})

\* the length word of a unit that announces the 64-bit format
Dwarf64Escape == <<255, 255, 255, 255>>

\* one turn of the loop of DebugInfoSection::load, with read_size bytes of the
\* section read before it: the header of a unit, its abbreviations, its DIEs.
\* "more" stands for the end of the turn without the break.
load_cu(file, read_size, checks) ==
    LET f == file.bytes
        str == read_exact(f, file.str.offset, file.str.size)
        p0 == file.info.offset + read_size
        w == read_exact(f, p0, 4)
        is64 == w.ok /\ w.bytes = Dwarf64Escape
        w64 == IF is64 THEN read_exact(f, w.pos, 8) ELSE [ok |-> TRUE, bytes |-> <<>>, pos |-> w.pos]
        ver == read_exact(f, w64.pos, 2)
        off == read_exact(f, ver.pos, 4)
        asz == read_exact(f, off.pos, 1)
        none == [len |-> 0, actual_len |-> <<>>, version |-> 0, abb_rev_offset |-> 0,
                 address_size |-> 0, dies |-> <<>>]
        cu_h == [len |-> LeNat(w.bytes), actual_len |-> w64.bytes,
                 version |-> LeNat(ver.bytes), abb_rev_offset |-> LeNat(off.bytes),
                 address_size |-> asz.bytes[1], dies |-> <<>>]
        units(head, cu, p) ==
            IF p.tag # "Ok"
            THEN [tag |-> "panic", read_size |-> head + p.read_size,
                  cu |-> [cu EXCEPT !.dies = p.dies]]
            ELSE [tag |-> IF head + p.read_size = file.info.size THEN "Ok" ELSE "more",
                  read_size |-> head + p.read_size, cu |-> [cu EXCEPT !.dies = p.dies]]
        dies(head, cu, abbrev) ==
            IF abbrev.tag # "Ok" THEN [tag |-> abbrev.tag, read_size |-> head, cu |-> cu]
            ELSE The({units(head, cu, p) :
                      p \in {parse(f, file.info.offset + head, 0, cu.len, abbrev.abb_rev,
                                   <<>>, str.bytes, checks)}})
        header(head, cu) ==
            The({dies(head, cu, abbrev) :
                 abbrev \in {abbrev_load(f, file.abbrev.offset, cu.abb_rev_offset, checks)}})
    IN IF ~str.ok \/ ~w.ok \/ ~w64.ok \/ ~ver.ok \/ ~off.ok \/ ~asz.ok
       THEN [tag |-> "Err", read_size |-> read_size, cu |-> none]
       ELSE The({header(v[1], v[2]) : v \in {<<read_size + (asz.pos - p0), cu_h>>}})

\* The files DebugInfoSection::load is run on. A unit is its abbreviation table, its
\* DIEs (the number of each and the values of its attributes) and whether a null
\* entry closes the children of its first DIE; the sections are the encodings of the
\* units, and the file holds .debug_info, .debug_abbrev and .debug_str in this order.

\* number of units of a file
MaxUnits == 2

\* records: a compile unit with children (name: string, stmt_list: sec_offset), a
\* variable (name: strp, byte_size: data1), a compile unit without children
RecUnit(no) ==
    [no |-> no, tag |-> 17, child |-> 1,
     attrs |-> << [name |-> 3, form |-> 8, at |-> "Name", fm |-> "String"],
                  [name |-> 16, form |-> 23, at |-> "StmtList", fm |-> "SecOffset"] >>]

RecVar(no) ==
    [no |-> no, tag |-> 52, child |-> 0,
     attrs |-> << [name |-> 3, form |-> 14, at |-> "Name", fm |-> "Strp"],
                  [name |-> 11, form |-> 11, at |-> "ByteSize", fm |-> "Data1"] >>]

RecUnitNoChild(no) ==
    [no |-> no, tag |-> 17, child |-> 0,
     attrs |-> << [name |-> 3, form |-> 8, at |-> "Name", fm |-> "String"] >>]

\* tables numbered 1, 2 in table order, 2, 1 in table order, and 1, 3
TableInOrder == <<RecUnit(1), RecVar(2)>>

TableSwapped == <<RecVar(2), RecUnit(1)>>

TableGap == <<RecUnit(1), RecVar(3)>>

TableSingle == <<RecUnitNoChild(1)>>

\* the tables whose k-th record has the number k
Sequential(table) == \A k \in 1..Len(table) : table[k].no = k

\* the record of a table with the number n
RecordNo(table, n) == table[CHOOSE k \in 1..Len(table) : table[k].no = n]

\* .debug_str: "i" at 0 and "xy" at 2
StrBytes == <<105, 0, 120, 121, 0>>

StrAt(offset) == IF offset = 0 THEN <<105>> ELSE <<120, 121>>

\* the names of the units: the empty one, "a", "ab"
UnitNames == {<<>>, <<97>>, <<97, 98>>}

\* a unit with nvars variables as children of its first DIE
UnitWithVars(table, name, nvars) ==
    [table |-> table,
     dies |-> <<[no |-> 1, vals |-> <<name, 0>>]>>
              \o [i \in 1..nvars |->
                    [no |-> table[CHOOSE k \in 1..Len(table) : table[k].tag = 52].no,
                     vals |-> <<IF i = 1 THEN 0 ELSE 2, 4>>]],
     null |-> TRUE]

\* a unit that is one DIE without children: nothing follows its last attribute
UnitAlone(name) ==
    [table |-> TableSingle, dies |-> <<[no |-> 1, vals |-> <<name>>]>>, null |-> FALSE]

Units ==
    {UnitWithVars(t, n, k) : t \in {TableInOrder, TableSwapped, TableGap},
                             n \in {<<>>, <<97>>}, k \in 1..2}
    \cup {UnitAlone(n) : n \in UnitNames}

\* the concatenation of a sequence of sequences
RECURSIVE Flat(_)
Flat(ss) == IF ss = <<>> THEN <<>> ELSE Head(ss) \o Flat(Tail(ss))

\* n in k bytes, the low byte first
LeBytes(n, k) == [i \in 1..k |-> (n \div (256 ^ (i - 1))) % 256]

\* the encodings: a record, a table, a value, a DIE, the DIEs of a unit
EncRec(r) ==
    <<r.no, r.tag, r.child>>
    \o Flat([i \in 1..Len(r.attrs) |-> <<r.attrs[i].name, r.attrs[i].form>>]) \o <<0, 0>>

EncTable(table) == Flat([k \in 1..Len(table) |-> EncRec(table[k])]) \o <<0>>

EncVal(fm, v) ==
    CASE fm = "String" -> v \o <<0>>
      [] fm = "Data1" -> <<v>>
      [] OTHER -> LeBytes(v, 4)

EncDie(table, die) ==
    LET r == RecordNo(table, die.no) IN
    <<die.no>> \o Flat([i \in 1..Len(r.attrs) |-> EncVal(r.attrs[i].fm, die.vals[i])])

EncBody(u) ==
    Flat([i \in 1..Len(u.dies) |-> EncDie(u.table, u.dies[i])])
    \o (IF u.null THEN <<0>> ELSE <<>>)

\* a unit in the 32-bit format, version 4, addresses of 8 bytes: the length of what
\* follows the length field, the header, the DIEs
EncUnit(u, abbrev_offset) ==
    LeBytes(7 + Len(EncBody(u)), 4) \o LeBytes(4, 2) \o LeBytes(abbrev_offset, 4) \o <<8>>
    \o EncBody(u)

\* the offset of the table of the k-th unit in .debug_abbrev
TableOffset(us, k) == Len(Flat([j \in 1..(k - 1) |-> EncTable(us[j].table)]))

\* the file of a sequence of units
DwFile(us) ==
    LET info == Flat([k \in 1..Len(us) |-> EncUnit(us[k], TableOffset(us, k))])
        abbrev == Flat([k \in 1..Len(us) |-> EncTable(us[k].table)])
    IN [units |-> us,
        bytes |-> info \o abbrev \o StrBytes,
        info |-> [offset |-> 0, size |-> Len(info)],
        abbrev |-> [offset |-> Len(info), size |-> Len(abbrev)],
        str |-> [offset |-> Len(info) + Len(abbrev), size |-> Len(StrBytes)]]

DwFiles == {DwFile(us) : us \in UNION {[1..n -> Units] : n \in 1..MaxUnits}}

\* DebugInfoSection::new, and the file and the build load runs with
InitDwarf ==
    /\ DbgUnused
    /\ AdrIdle /\ ElfIdle /\ TrIdle
    /\ reader = <<>> /\ decoded = <<>> /\ leb_in = <<>>
    /\ overflow_checks \in BOOLEAN
    /\ dw_file \in DwFiles
    /\ dw_read = 0
    /\ dw_cus = <<>>
    /\ dw_ret = <<>>

\* one turn of the loop of DebugInfoSection::load: the unit is pushed unless the turn
\* ends in an error or a panic, and the loop ends with Ok once read_size is the
\* size of the section
DwLoadCU ==
    /\ dw_ret = <<>>
    /\ \E r \in {load_cu(dw_file, dw_read, overflow_checks)} :
          /\ dw_read' = r.read_size
          /\ dw_cus' = IF r.tag \in {"Ok", "more"} THEN Append(dw_cus, r.cu) ELSE dw_cus
          /\ dw_ret' = IF r.tag = "more" THEN <<>> ELSE <<r.tag>>
    /\ UNCHANGED <<dbgVars, notDw, dw_file>>

NextDwarf == DwLoadCU

SpecDwarf == InitDwarf /\ [][NextDwarf]_vars

----------------------------------------------------------------------------
\* Claims

\* at most one entry for a final absolute address
BLUnique ==
    \A i, j \in 1..Len(breakpoints) :
        get(breakpoints[i].addr) = get(breakpoints[j].addr) => i = j

\* the entries stand in the order in which they were registered
BLInsertionOrder ==
    \A i, j \in 1..Len(breakpoints) :
        i < j => /\ regTime[get(breakpoints[i].addr)] > 0
                 /\ regTime[get(breakpoints[i].addr)] < regTime[get(breakpoints[j].addr)]

\* a step of delete(i): with i < len the i-th entry goes and is returned, the others keep
\* their order, the later ones one index lower; with i >= len nothing changes
BLDeleteExact ==
    last'.cmd = "delete" =>
        LET i == last'.bp
        IN IF i < Len(breakpoints)
           THEN /\ last'.ret
                /\ last'.coms = <<breakpoints[i + 1].sym>>
                /\ Len(breakpoints') = Len(breakpoints) - 1
                /\ \A j \in 1..Len(breakpoints') :
                      breakpoints'[j] = IF j <= i THEN breakpoints[j] ELSE breakpoints[j + 1]
           ELSE ~last'.ret /\ breakpoints' = breakpoints

\* C1: for any sequence of register and delete calls the table holds at most one
\* entry for a final absolute address, the entries are in the order of their
\* registration, and delete(i) with i < len removes exactly the i-th entry and leaves
\* the others in their order
C1_UniqueOrderedDelete == [](BLUnique /\ BLInsertionOrder) /\ [][BLDeleteExact]_vars

\* C1 witness: the first of three entries was deleted, the two later ones moved down,
\* after a register of an address already present had been refused
C1_Witness ==
    /\ pc = "BreakpointList"
    /\ last.cmd = "delete" /\ last.ret /\ last.bp = 0
    /\ Len(breakpoints) = 2
    /\ clock = MaxReg


\* (W & ~0xFF) | 0xCC of a little-endian word: int 3 in the low byte, the rest of W
Patched(W) == [i \in 1..WordBytes |-> IF i = 1 THEN INT3 ELSE W[i]]

\* a step of the shell that is the turn for one line, read by a stopped tracee's shell
ShellTurn == pc = "shell" /\ TraceeStopped

\* such a step of a shell whose symbols were loaded at the first stop
LoadedShellTurn == ShellTurn /\ entry = LoadBase /\ sym_tbl = SymTblOfFile

\* a step in which Debugger::breakpoint runs for the address a: the word at a becomes
\* the word before it with int 3 in the low byte
C2_InstallPatches ==
    /\ (ShellTurn /\ last'.cmd = "sh_breakpoint" /\ last'.bp # -1)
          => PtraceRead(mem', last'.bp) = Patched(PtraceRead(mem, last'.bp))
    /\ (pc = "recover" /\ pc' = "shell")
          => PtraceRead(mem', hit) = Patched(PtraceRead(mem, hit))

\* a step in which release_break deletes the breakpoint at a: the word at a becomes
\* the word that was there before the installation that registered it
C2_ReleaseRestores ==
    (ShellTurn /\ last'.cmd = "sh_release_break" /\ last'.ret)
        => PtraceRead(mem', last'.bp) = orig[last'.bp]

\* C2: after Debugger::breakpoint for A the word at A is (W & ~0xFF) | 0xCC, W being the
\* word at A before; after release_break deletes that breakpoint the word at A is W again
C2_PatchByteExact == [][C2_InstallPatches /\ C2_ReleaseRestores]_vars

\* C2 witness: a breakpoint was deleted while another one, whose word overlaps it,
\* is still registered, and the word restored is not the word of the unpatched image
C2_Witness ==
    /\ pc = "shell" /\ last.cmd = "sh_release_break" /\ last.ret
    /\ Len(breakpoints) = 1
    /\ PtraceRead(mem, last.bp) # PtraceRead(Image, last.bp)

\* recover_bp has just returned to stopped_handler, which entered the shell
Recovered == pc = "shell" /\ last.cmd = "recover_bp" /\ last.ret

\* the word at a has int 3 in its low byte and the other seven bytes of the saved word
Rearmed(a) ==
    /\ IsSome(search(breakpoints, AdrFromAbs(a)))
    /\ PtraceRead(mem, a) = Patched(Unwrap(search(breakpoints, AdrFromAbs(a))).inst)

\* the tracee executed exactly the instruction at a, with the saved word in place
SteppedOver(a) ==
    /\ last.step.n = 1
    /\ last.step.from = a
    /\ IsSome(search(breakpoints, AdrFromAbs(a)))
    /\ last.step.word = Unwrap(search(breakpoints, AdrFromAbs(a))).inst

PromptAfterHit == Recovered /\ last.resumed = "cont"

\* C4 as claimed: at the prompt after the breakpoint at A was hit, rip is A
C4_Original == PromptAfterHit => regs["rip"] = last.bp

\* C4 as amended: at the prompt after the breakpoint at A was hit, "break at A" was
\* printed and rip is where the single step of the recovery left it: the address after
\* the instruction at A, or A itself when the step executed nothing
C4_PromptAfterRecovery ==
    PromptAfterHit =>
        /\ out = [msg |-> "break at", val |-> last.bp]
        /\ regs["rip"] = IF last.step.n = 1 THEN last.step.to ELSE last.bp
        /\ last.step.n = 1 => last.step.from = last.bp

\* C4 witness: the prompt after a hit under cont shows a rip that is not A
C4_Witness == PromptAfterHit /\ regs["rip"] # last.bp /\ last.step.n = 1

\* C5: every tracee operation is issued while the tracee is in a stop that wait has
\* returned: no operation was refused, and the shell, which issues them, runs only then
C5_OpsOnlyWhileStopped == ~badOp /\ (pc = "shell" => TraceeStopped)

\* C5 witness: after the shell's step ran into a breakpoint, the recovery has written
\* memory and registers, stepped, waited, read and written memory, and the shell runs
C5_Witness ==
    /\ pc = "shell" /\ TraceeStopped /\ ~badOp
    /\ last.cmd = "recover_bp" /\ last.ret /\ last.resumed = "step"

\* C6 as claimed: the map and the ELF file are loaded at the first Stopped status,
\* whatever statuses came before, so the shell never runs with entry 0 and no symbols
C6_LoadedBeforeShell == pc = "shell" => entry # 0 /\ sym_tbl # <<>>

\* the rows of the command table: the first token and the number of tokens
InTable(coms) ==
    LET n == Len(coms) IN
    \/ n = 1 /\ coms[1] \in {"c", "s", "bl", "h", "quit"}
    \/ n = 2 /\ coms[1] \in {"b", "d", "p"}
    \/ n = 2 /\ coms[1] = "info" /\ coms[2] \in {"regs", "debugsec"}
    \/ n = 4 /\ coms[1] = "set" /\ coms[2] \in {"var", "regs"}

\* C7 as claimed: a line that matches no row of the command table prints "not support
\* command", changes neither registers, memory nor the table, and the shell goes on
C7_OnlyTableRowsRun ==
    [][(LoadedShellTurn /\ last'.coms # <<>> /\ ~InTable(last'.coms))
          => /\ out'.msg = "not support command"
             /\ UNCHANGED <<regs, mem, breakpoints, tstate>>
             /\ pc' = "shell"]_vars

\* a line whose handler meets a value it cannot parse
ParseErrorLine(coms) ==
    \/ handlerOf(coms) = "sh_write_sym" /\ ParseHex(coms[4]) < 0
    \/ handlerOf(coms) = "set_regs" /\ (ParseHex(coms[4]) < 0 \/ coms[3] \notin RegNames)
    \/ handlerOf(coms) = "sh_release_break" /\ ParseUsize(coms[2]) < 0

\* C8 as claimed: a parse error in a handler prints a message, changes neither
\* registers, memory nor the table, and the shell prompts again
C8_ParseErrorsRecoverable ==
    [][(LoadedShellTurn /\ ParseErrorLine(last'.coms))
          => /\ out'.msg \in {"parse error", "not register"}
             /\ UNCHANGED <<regs, mem, breakpoints, tstate>>
             /\ pc' = "shell"]_vars

\* the symbol table has a symbol of the type with the demangled name
HasSym(name, type) ==
    \E i \in 1..Len(sym_tbl) :
        demangle(sym_tbl[i].st_rname) = name /\ sym_tbl[i].st_type = type

\* a line of b, p or set var (with a hexadecimal value) that names no such symbol
UnknownSymLine(coms) ==
    \/ handlerOf(coms) = "sh_breakpoint" /\ ~HasSym(coms[2], "Func")
    \/ handlerOf(coms) = "sh_read_sym" /\ ~HasSym(coms[2], "Object")
    \/ handlerOf(coms) = "sh_write_sym" /\ ParseHex(coms[4]) >= 0 /\ ~HasSym(coms[3], "Object")

\* C9: b, p or set var with a name that has no Func (b) or Object (p, set var) symbol
\* prints "not found symbol", touches no address of the tracee, leaves memory,
\* registers and the table as they are, and the shell goes on
C9_SymbolMiss ==
    [][(ShellTurn /\ UnknownSymLine(last'.coms))
          => /\ out'.msg = "not found symbol"
             /\ last'.bp = -1
             /\ UNCHANGED <<regs, mem, breakpoints, tstate>>
             /\ pc' = "shell"]_vars

\* C9 witness: with symbols loaded and a breakpoint set, b named a symbol that is an
\* Object and no Func
C9_Witness ==
    /\ pc = "shell" /\ sym_tbl # <<>> /\ Len(breakpoints) > 0
    /\ last.coms = <<"b", "g_var">> /\ out.msg = "not found symbol"

\* b for an address that is registered already
DuplicateB ==
    /\ last'.cmd = "sh_breakpoint" /\ last'.bp # -1
    /\ \E i \in 1..Len(breakpoints) : get(breakpoints[i].addr) = last'.bp

\* d N with N not below the length of the table
OutOfRangeD ==
    /\ last'.cmd = "sh_release_break"
    /\ ParseUsize(last'.coms[2]) >= Len(breakpoints)

\* C10 as claimed: b for a registered address and d N with N >= len leave the table
\* and the tracee's memory as they are, register and release_break returning false
C10_TableErrorsIgnored ==
    [][(LoadedShellTurn /\ (DuplicateB \/ OutOfRangeD))
          => /\ UNCHANGED <<breakpoints, mem>>
             /\ ~last'.ret
             /\ pc' = "shell"]_vars


\* the result Ok((size, val))
LebOk(size, val) == [tag |-> "Ok", size |-> size, val |-> val]

\* C11: decode on the canonical encoding of v returns (n, v) with n the length of the
\* encoding and consumes exactly n bytes, so successive calls on a concatenation of
\* encodings return the values in order and leave exactly the encodings not yet read
C11_DecodeRoundTrip ==
    leb_in.vals # <<>> =>
        /\ \A k \in 1..Len(decoded) :
              k <= Len(leb_in.vals) =>
                  decoded[k] = LebOk(Len(Encode(leb_in.vals[k])), leb_in.vals[k])
        /\ Len(decoded) <= Len(leb_in.vals) =>
              reader = EncodeAll(SubSeq(leb_in.vals, Len(decoded) + 1, Len(leb_in.vals)))
        /\ (leb_in.bytes = <<229, 142, 38>> /\ Len(decoded) >= 1)
              => decoded[1] = LebOk(3, U64Of(624485))

\* C11 witness: 0x7F 0x00 0x01 decoded three times gave (1,127), (1,0), (1,1) and the
\* reader is empty
C11_Witness ==
    /\ leb_in.bytes = <<127, 0, 1>>
    /\ decoded = <<LebOk(1, U64Of(127)), LebOk(1, U64Of(0)), LebOk(1, U64Of(1))>>
    /\ reader = <<>>

\* no byte of the reader has bit 0x80 clear
NoLastByte(r) == \A i \in 1..Len(r) : ~MsbClear(r[i])

\* C12 as claimed: a decode whose reader runs out before a byte with bit 0x80 clear
\* returns Err(DecodeError)
C12_ExhaustedIsErr ==
    [][(NoLastByte(reader) /\ decoded' # decoded)
          => decoded'[Len(decoded')].tag = "Err"]_vars


\* the address that the constructor's arguments stand for
AdrExpected == IF adr_in[1] = "abs" THEN adr_in[2] ELSE adr_in[2] + adr_in[3]

\* C13: AdrFromAbs::new(x).get() is x, AdrFromRel::new(b, o).get() is b + o, every
\* later get() returns the same address, and no call changes the object
C13_AddressGet ==
    /\ [](\A i \in 1..Len(got) : got[i] = AdrExpected)
    /\ [][adr' = adr]_vars

\* C13 witness: a relative address with a base and an offset that are not 0 was
\* asked three times
C13_Witness ==
    /\ adr_in = <<"rel", 5, 7>>
    /\ got = <<12, 12, 12>>


\* the positions of the symbols with the demangled name and the type t, the low
\* four bits of st_info
SymMatches(name, t) ==
    {i \in 1..Len(sym_tbl) : demangle(sym_tbl[i].st_rname) = name /\ sym_tbl[i].st_info % 16 = t}

\* C14: search_func_sym returns the first symbol, in table order, whose demangled name
\* is the name asked for and whose type is Func (2), search_var_sym the first whose
\* type is Object (1); each returns None exactly when there is no such symbol
C14_SearchByNameAndType ==
    found # <<>> =>
        LET M == SymMatches(found.name, IF found.kind = "Func" THEN 2 ELSE 1)
        IN IF M = {}
           THEN found.ret = NoneOpt
           ELSE found.ret = Some(sym_tbl[CHOOSE i \in M : \A j \in M : i <= j])

\* C14 witness: the function main was found behind a symbol main that is an Object
\* (st_info 0x21) and one whose type is none of the three (st_info 0x14)
C14_Witness ==
    /\ found # <<>>
    /\ found.kind = "Func" /\ found.name = "main"
    /\ Len(sym_tbl) = 6 /\ found.ret = Some(sym_tbl[5])
    /\ demangle(sym_tbl[3].st_rname) = "main" /\ sym_tbl[3].st_info = 33
    /\ demangle(sym_tbl[4].st_rname) = "main" /\ sym_tbl[4].st_info = 20

\* the numbers of the sections of the file whose type is t, but for the number skip
SecNos(t, skip) ==
    {i - 1 : i \in {j \in 1..Len(elf_file.secs) :
                      elf_file.secs[j].sh_type = t /\ j - 1 # skip}}

\* the least number of a set of section numbers
MinNo(S) == CHOOSE i \in S : \A j \in S : i <= j

\* C15 as claimed: load takes the symbols from the first section of type SymTab (2),
\* their names from the first section of type StrTab (3) whose number is not
\* e_shstrndx, and the section names from the StrTab section of number e_shstrndx
C15_FirstSections ==
    (elf_ret # <<>> /\ IF elf_ret = <<>> THEN FALSE ELSE elf_ret.symtab # -1) =>
        /\ elf_ret.symtab = MinNo(SecNos(2, -1))
        /\ elf_ret.strtab = MinNo(SecNos(3, elf_file.e_shstrndx))
        /\ elf_ret.shstr = elf_file.e_shstrndx
        /\ elf_ret.shstr \in SecNos(3, -1)

\* the file has a section of the name
HasSec(name) == \E i \in 1..Len(elf_file.secs) : elf_file.secs[i].name = name

\* C20 as claimed: with .debug_info, .debug_abbrev and .debug_str in the table, all
\* parseable, and no .debug_line, Dwarf::load and so Elf64::load return Ok
C20_DebugLineOptional ==
    (/\ elf_ret # <<>>
     /\ IF elf_ret = <<>> THEN FALSE ELSE elf_ret.symtab # -1
     /\ HasSec(".debug_info") /\ HasSec(".debug_abbrev") /\ HasSec(".debug_str")
     /\ elf_file.parse = "Ok"
     /\ ~HasSec(".debug_line"))
        => elf_ret.res = "Ok"


\* the little-endian word of a value below 2^16
Word16(v) == [i \in 1..WordBytes |-> IF i = 1 THEN v % 256 ELSE IF i = 2 THEN v \div 256 ELSE 0]

\* the value of the hexadecimal numbers of the lines
HexValue(tok) == IF tok = "0xdead" THEN 57005 ELSE IF tok = "0x11" THEN 17 ELSE -1

\* the address entry + st_value of the variable symbol of a name
VarAddr(name) == entry + sym_tbl[FirstSym(sym_tbl, name, "Object")].st_value

\* the handlers that neither write the tracee's memory nor resume it
ReadOnlyCmds ==
    {"empty", "sh_read_sym", "help", "show_break", "show_regs", "show_debug", "set_regs",
     "not support command"}

\* C16: set var SYM v writes the whole word v at entry + st_value, p SYM prints the
\* whole word at that address, and the commands between that neither write
\* memory nor resume the tracee leave the word alone: p SYM after set var SYM v prints v
C16_WriteThenRead ==
    [][/\ (ShellTurn /\ last'.cmd = "sh_write_sym" /\ last'.ret)
            => /\ last'.bp = VarAddr(last'.coms[3])
               /\ PtraceRead(mem', last'.bp) = Word16(HexValue(last'.coms[4]))
       /\ (ShellTurn /\ last'.cmd = "sh_read_sym" /\ last'.ret)
            => /\ last'.bp = VarAddr(last'.coms[2])
               /\ out' = [msg |-> "0x", val |-> PtraceRead(mem, last'.bp)]
       /\ (ShellTurn /\ last'.cmd \in ReadOnlyCmds) => mem' = mem
       /\ (/\ ShellTurn /\ last.cmd = "sh_write_sym" /\ last.ret
           /\ last'.cmd = "sh_read_sym" /\ last'.coms[2] = last.coms[3])
            => out' = [msg |-> "0x", val |-> Word16(HexValue(last.coms[4]))]
      ]_vars

\* C16 witness: p g_var right after set var g_var 0xdead printed 0xdead, with a
\* breakpoint installed
C16_Witness ==
    /\ pc = "shell" /\ last.coms = <<"p", "g_var">> /\ last.ret
    /\ out = [msg |-> "0x", val |-> <<173, 222, 0, 0, 0, 0, 0, 0>>]
    /\ Len(breakpoints) > 0

\* C17: set regs REG HEX with REG of the list and HEX a hexadecimal number sets that
\* register to the number and leaves every other register as it was, and info regs
\* shows for every register of the list its value under its name
C17_SetRegsFrame ==
    [][/\ (last'.cmd = "set_regs" /\ last'.coms[3] \in RegNames
             /\ HexValue(last'.coms[4]) >= 0)
            => /\ last'.ret
               /\ regs'[last'.coms[3]] = HexValue(last'.coms[4])
               /\ \A r \in RegNames \ {last'.coms[3]} : regs'[r] = regs[r]
       /\ (last'.cmd = "show_regs")
            => /\ Len(out'.val) = Cardinality(RegNames)
               /\ \A r \in RegNames : \E i \in 1..Len(out'.val) : out'.val[i] = <<r, regs[r]>>
      ]_vars

\* C17 witness: info regs after set regs gs 0x11 and set regs rax 0xdead shows both
\* values and 0 for rip
C17_Witness ==
    /\ last.cmd = "show_regs"
    /\ out.val[25] = <<"gs", 17>> /\ out.val[12] = <<"rax", 57005>> /\ out.val[2] = <<"rip", 0>>


\* the controller process has ended
Ended == pc \in {"exit", "done", "panic"}

\* the load of the file failed at the first Stopped event
LoadFailed == pc = "exit" /\ last.cmd = "sh_quit" /\ ~last.ret

\* C18: the process ends with status 0 on quit and with a status other than 0 on a
\* panic; when the load fails at the first Stopped event the tracee is killed, no
\* command of the shell has run and the status is other than 0
C18_ExitStatus ==
    /\ (pc = "exit" /\ last.cmd = "sh_quit" /\ last.ret) => ExitStatus(pc) = 0
    /\ pc = "panic" => ExitStatus(pc) # 0
    /\ LoadFailed => /\ tstate = "dead"
                     /\ breakpoints = <<>> /\ clock = 0
                     /\ ExitStatus(pc) # 0

\* the parts of C18 that hold: all but the status after a failed load
C18_ExitStatusButLoad ==
    /\ (pc = "exit" /\ last.cmd = "sh_quit" /\ last.ret) => ExitStatus(pc) = 0
    /\ pc = "panic" => ExitStatus(pc) # 0
    /\ LoadFailed => /\ tstate = "dead"
                     /\ breakpoints = <<>> /\ clock = 0


\* number of times a request occurs in a sequence of requests
Count(seq, x) == Cardinality({i \in 1..Len(seq) : seq[i] = x})

\* the tracer's loop has received a wait status in this step
TrReceived(ev) == last' # last /\ last'.cmd = ev

\* the parts of C19 about the arms of Stopped and PtraceSyscall
C19_Arms ==
    /\ (Count(reqs', "syscall") > 0 /\ reqs' # reqs) => sysgood'
    /\ (TrReceived("Stopped") \/ TrReceived("PtraceSyscall"))
          => Count(reqs', "syscall") = 1 /\ tstate' = "run"
    /\ TrReceived("PtraceSyscall") => reqs' = <<"getregs", "println", "syscall">>
    /\ tstate' = "stop" => pending'

\* C19: TRACESYSGOOD is set before the first syscall-continue; every Stopped and
\* every PtraceSyscall status is answered by one syscall-continue (after one
\* register read and one line for PtraceSyscall) and the tracee is never left
\* stopped; the loop ends exactly when Exited is received
C19_TracerLoop ==
    [][/\ C19_Arms
       /\ (pc' # "wait") = (last'.cmd = "Exited")
      ]_vars

\* the parts of C19 that hold: all but the end of the loop, which also ends by
\* the panic of waitpid after Signaled
C19_TracerLoopButEnd ==
    [][/\ C19_Arms
       /\ last'.cmd = "Exited" => pc' = "done"
       /\ pc' = "done" => last'.cmd = "Exited"
      ]_vars

\* three syscall stops were answered and the tracee runs
C19_ArmsWitness ==
    /\ pc = "wait" /\ tstate = "run" /\ events = MaxEvents
    /\ last.cmd = "PtraceSyscall" /\ out.msg = "exit_group"


\* the word saved in the table for the breakpoint at the address a
SavedWord(bps, a) == Unwrap(search(bps, AdrFromAbs(a))).inst

\* C21: recover_bp writes the saved word W to A, sets rip to A and single-steps, in
\* this order and before its own wait; until that wait returns the controller does
\* nothing (no shell command, no status of the loop of start is handled); when it
\* returns Stopped the 0xCC is patched at A again and the shell follows
C21_RecoveryOrder ==
    [][/\ (pc # "recover" /\ pc' = "recover")
            => /\ hit' = regs["rip"] - 1
               /\ PtraceRead(mem', hit') = SavedWord(breakpoints, hit')
               /\ regs' = [regs EXCEPT !["rip"] = hit']
               /\ tstate' = "step" /\ ~pending'
               /\ breakpoints' = breakpoints
       /\ pc = "recover"
            => /\ last'.cmd \in {"recover_bp", "panic"}
               /\ pc' \in {"recover", "shell", "panic"}
               /\ pc' = "recover"
                    => UNCHANGED <<breakpoints, mem, out, last, hit>>
               /\ pc' = "shell"
                    => /\ tstate = "stop" /\ pending /\ ~pending'
                       /\ mem'[hit] = INT3
                       /\ \A a \in DOMAIN mem : a # hit => mem'[a] = mem[a]
      ]_vars

\* C21 witness: the step of a recovery has ended and its wait has not returned yet;
\* the saved byte, not 0xCC, is at A, a second breakpoint is registered
C21_Witness ==
    /\ pc = "recover" /\ tstate = "stop" /\ pending
    /\ mem[hit] # INT3 /\ regs["rip"] # hit
    /\ Len(breakpoints) = 2


\* the wait of recover_bp returns in this step
RecoverReturns == pc = "recover" /\ pc' # "recover"

\* the controller issues no tracee operation in this step: it neither writes memory
\* or registers nor resumes the tracee
NoTraceeOp ==
    /\ mem' = mem
    /\ tstate = "stop" => (tstate' = "stop" /\ regs' = regs)

\* C22: when the wait of recover_bp returns another status than Stopped, the
\* controller panics: nothing is patched at A, where the saved word stays, the table
\* is as it was, and
\* from then on no tracee operation is issued and the shell is not entered
C22_UnexpectedEventFatal ==
    [][/\ (RecoverReturns /\ ~(tstate = "stop" /\ pending))
            => /\ pc' = "panic"
               /\ out' = Msg("recover_bp do not expect event")
               /\ mem' = mem /\ PtraceRead(mem', hit) = SavedWord(breakpoints, hit)
               /\ breakpoints' = breakpoints /\ regs' = regs
       /\ pc = "panic"
            => /\ pc' = "panic"
               /\ NoTraceeOp
               /\ UNCHANGED <<breakpoints, out, last>>
      ]_vars

\* C22 witness: the tracee exited in the step of a recovery and recover_bp has
\* panicked; the saved byte, not 0xCC, is at A
C22_Witness ==
    /\ pc = "panic" /\ out = Msg("recover_bp do not expect event")
    /\ tstate = "dead" /\ last.bp >= 0 /\ mem[last.bp] # INT3
    /\ Len(breakpoints) > 0


\* the absolute addresses of the entries of a table
BpAddrs(bps) == {get(bps[i].addr) : i \in 1..Len(bps)}

\* C26 as claimed: whenever the shell has the control, with the file loaded, the byte
\* at the address of every breakpoint of the table is 0xCC
C26_AllArmed ==
    (pc = "shell" /\ TraceeStopped /\ entry = LoadBase /\ sym_tbl = SymTblOfFile)
        => \A a \in BpAddrs(breakpoints) : mem[a] = INT3

\* memory differs from the image as loaded at the addresses of the table only
OnlyBreakpointBytes(m, bps) ==
    \A a \in ImgAddrs : m[a] # Image[a] => a \in BpAddrs(bps)

\* C27 as claimed: a b or d command of the shell, run while memory differs from the
\* image at the addresses of the table only, leaves it so: after any b and d
\* commands only the bytes at the registered addresses differ, none once the table
\* is empty
C27_ByteExact ==
    [][(/\ LoadedShellTurn
        /\ last'.cmd \in {"sh_breakpoint", "sh_release_break"}
        /\ OnlyBreakpointBytes(mem, breakpoints))
          => OnlyBreakpointBytes(mem', breakpoints')]_vars


\* a wait of the controller returns Stopped in this step
StoppedReturned == pc \in {"wait", "recover"} /\ tstate = "stop" /\ pending /\ ~pending'

\* C28 as claimed: after every Stopped status, of any signal, the controller enters
\* the shell or resumes the tracee, or ends; it does not go back to wait with the
\* tracee stopped
C28_NoWaitOnStopped ==
    [][StoppedReturned
          => \/ pc' = "shell"
             \/ tstate' \in {"run", "step"}
             \/ pc' \in {"exit", "panic"}]_vars

\* what holds of C28: after every Stopped status with SIGTRAP the controller enters
\* the shell, starts a recovery, or ends
C28_TrapStops ==
    [][(StoppedReturned /\ tsig = "SIGTRAP")
          => \/ pc' = "shell"
             \/ pc' = "recover" /\ tstate' = "step"
             \/ pc' \in {"exit", "panic"}]_vars


\* C29: a recovery leaves the table as it was, from the hit to the prompt: the same
\* entries in the same order, each with its symbol, address and saved word; the
\* address handed to breakpoint is A - entry with A >= entry, and entry plus it is A
C29_RecoveryKeepsTable ==
    [][/\ (pc = "recover" \/ pc' = "recover") => breakpoints' = breakpoints
       /\ (pc = "recover" /\ pc' = "shell")
            => /\ hit >= entry
               /\ get(AdrFromRel(entry, to_sym_addr(entry, hit))) = hit
               /\ SavedWord(breakpoints', hit) = SavedWord(breakpoints, hit)
               /\ mem[hit] # INT3 => SavedWord(breakpoints', hit) # PtraceRead(mem', hit)
      ]_vars

\* C29 witness: the recovery of the second of two breakpoints has returned; its
\* entry holds the word of the image as loaded
C29_Witness ==
    /\ Recovered /\ Len(breakpoints) = 2
    /\ get(breakpoints[2].addr) = last.bp
    /\ breakpoints[2].inst = PtraceRead(Image, last.bp)


\* the index of the first byte of r with bit 0x80 clear
FirstLast(r) == CHOOSE n \in 1..Len(r) : MsbClear(r[n]) /\ \A i \in 1..(n - 1) : ~MsbClear(r[i])

\* the sum over i of (b_i & 0x7F) * 2^(7 i) modulo 2^64, as the set of its one bits:
\* the groups of seven bits do not overlap, and the bits from 64 on are dropped
SumMod64(bytes) ==
    {p \in U64 : \E i \in 1..Len(bytes) :
        /\ 7 * (i - 1) <= p /\ p < 7 * i
        /\ (bytes[i] \div (2 ^ (p - 7 * (i - 1)))) % 2 = 1}

\* C30 as claimed: decode on a reader that holds a byte with bit 0x80 clear returns
\* Ok((n, v)), n the number of bytes up to that byte and v the sum of their groups of
\* seven bits modulo 2^64, whatever n is, and leaves the bytes behind it
C30_DecodeAnyLength ==
    [][(decoded' # decoded /\ \E i \in 1..Len(reader) : MsbClear(reader[i]))
          => LET n == FirstLast(reader) IN
             /\ decoded'[Len(decoded')] = LebOk(n, SumMod64(SubSeq(reader, 1, n)))
             /\ reader' = SubSeq(reader, n + 1, Len(reader))]_vars

\* what holds of C30: the same for the readers whose last byte is the tenth or an
\* earlier one
C30_DecodeUpToTen ==
    [][(decoded' # decoded /\ \E i \in 1..Len(reader) : MsbClear(reader[i]))
          => LET n == FirstLast(reader) IN
             n <= 10 =>
                /\ decoded'[Len(decoded')] = LebOk(n, SumMod64(SubSeq(reader, 1, n)))
                /\ reader' = SubSeq(reader, n + 1, Len(reader))]_vars

\* the first turn of the loop of DebugInfoSection::load is over
FirstTurnDone == dw_ret # <<>> \/ dw_read > 0

\* the tables of the first k units are numbered 1, 2, ... in table order
Numbered(k) == \A j \in 1..k : Sequential(dw_file.units[j].table)

\* a null entry is the last byte of each of the first k units
Closed(k) == \A j \in 1..k : dw_file.units[j].null

\* the offset in .debug_info at which the first k units end: the sum of L + 4
UnitEnd(k) == Len(Flat([j \in 1..k |-> EncUnit(dw_file.units[j], 0)]))

\* number, attribute and form of the entries of a unit, without the entries made
\* for the pair 0, 0 that closes a record
Shape(dies) ==
    LET kept == SelectSeq(dies, LAMBDA e : e.form # "End")
    IN [i \in 1..Len(kept) |-> <<kept[i].no, kept[i].attr, kept[i].form>>]

\* the same of a unit whose DIEs are each read with the record of their number
ShapeByNumber(u) ==
    Flat([i \in 1..Len(u.dies) |->
            LET r == RecordNo(u.table, u.dies[i].no)
            IN [k \in 1..Len(r.attrs) |-> <<u.dies[i].no, r.attrs[k].at, r.attrs[k].fm>>]])

\* C23: each DIE with the number n is decoded against the record of the unit's table
\* whose abbrev_no is n, whatever the order of the numbers in the table: once the
\* first unit is through, its entries are those of the records its DIEs name.
C23_RecordByNumber ==
    (FirstTurnDone /\ Closed(1))
        => /\ Len(dw_cus) >= 1
           /\ Shape(dw_cus[1].dies) = ShapeByNumber(dw_file.units[1])

\* what the code does: the same for the tables numbered 1, 2, ... in table order
C23_RecordByIndex ==
    (FirstTurnDone /\ Closed(1) /\ Numbered(1))
        => /\ Len(dw_cus) >= 1
           /\ Shape(dw_cus[1].dies) = ShapeByNumber(dw_file.units[1])

\* C24: for well-formed units of the 32-bit format the DIE loop ends, the bytes read
\* for a unit of length L are L + 4, so each unit is read from where the length of
\* the one before puts it, and load ends when the total is the size of the section.
\* Stated of the files whose tables are numbered in table order.
C24_LengthGoverns ==
    Numbered(Len(dw_file.units))
        => /\ dw_ret \in {<<>>, <<"Ok">>}
           /\ dw_read = UnitEnd(Len(dw_cus))
           /\ dw_ret = <<"Ok">> <=> (dw_read = dw_file.info.size /\ Len(dw_cus) >= 1)

\* what the code does: the same for the units whose last byte is a null entry
C24_LengthGovernsClosed ==
    (Numbered(Len(dw_file.units)) /\ Closed(Len(dw_file.units)))
        => /\ dw_ret \in {<<>>, <<"Ok">>}
           /\ dw_read = UnitEnd(Len(dw_cus))
           /\ dw_ret = <<"Ok">> <=> (dw_read = dw_file.info.size /\ Len(dw_cus) >= 1)

\* C25: the value text of an attribute of the form String is the bytes of the string
\* without the NUL that ends it, and the counter goes on by the length of the string
\* plus one, so that the bytes read are those of the units read. Stated of the name
\* of the first DIE of each unit, in files whose tables are numbered in table order
\* and whose units end in a null entry.
C25_StringText ==
    (Numbered(Len(dw_file.units)) /\ Closed(Len(dw_file.units)))
        => /\ dw_read = UnitEnd(Len(dw_cus))
           /\ \A k \in 1..Len(dw_cus) :
                /\ dw_cus[k].dies[1].form = "String"
                /\ dw_cus[k].dies[1].data = Text(dw_file.units[k].dies[1].vals[1])

\* what the code does: the text holds the NUL too
C25_StringTextWithNul ==
    (Numbered(Len(dw_file.units)) /\ Closed(Len(dw_file.units)))
        => /\ dw_read = UnitEnd(Len(dw_cus))
           /\ \A k \in 1..Len(dw_cus) :
                /\ dw_cus[k].dies[1].form = "String"
                /\ dw_cus[k].dies[1].data = Text(dw_file.units[k].dies[1].vals[1] \o <<0>>)

====
